---- MODULE Spec2Model ----
(***************************************************************************)
(* Publication wizard (ProfessionalPublicationCenter) of InsPublish, with  *)
(* its ISBN-13 validator, channel rule table, ISBN-assistance modal and    *)
(* the timed delivery simulation.                                          *)
(*                                                                         *)
(* The other parts of the program follow, each run on its own: the spine   *)
(* metrics of SpineGenerator, the cover management modal, the artifact     *)
(* downloader, the auto-snapshot timers of dbService and the library's     *)
(* project cards.                                                          *)
(*                                                                         *)
(* Strings are sequences of one-character strings, so that stripping,      *)
(* digit tests and the checksum loop are computed as the code computes     *)
(* them.  Time is kept as the milliseconds left on each pending timer.     *)
(***************************************************************************)
EXTENDS Integers, Sequences, FiniteSets, TLC

VARIABLES
  step,                 \* useState<PubStep>
  selectedTemplateId,   \* useState<string>('t2')
  targetPlatform,       \* useState('')
  deliveryPhase,        \* useState(0)
  isISBNAssistantOpen,  \* useState(false)
  config,               \* useState({... isbn, languageCode, longDescription ...})
  inputIsbn,            \* ISBNAssistanceModal: useState('')
  project,              \* prop: Project | null, as last persisted by the host
  hasOnUpdateProject,   \* prop: onUpdateProject is passed
  mounted,              \* the component is mounted
  intervals,            \* pending setInterval handles: ms left to the next tick
  timeouts,             \* pending setTimeout handles: ms left
  sinceLast,            \* history: ms elapsed since deliveryPhase last changed
  visited,              \* history: the phases shown during DELIVERY_SEQUENCE
  emitted,              \* history: onUpdateProject calls made by the last action
  lateFire,             \* history: a timer callback ran after teardown
  attempt,              \* history: outcome of handleInitiateDelivery, if it ran last
  channelRuleMemo,      \* value cached by useMemo(..., [targetPlatform])
  isbnStateMemo,        \* value cached by useMemo(..., [channelRule, config.isbn])
  closeCalls,           \* history: onClose calls made by the last action
  call,                 \* a function applied on its own: [fn, arg, done, result]
  \* CoverManagementModal
  selectedType,         \* useState<CoverAssetType>(EBOOK_DIGITAL)
  currentAssets,        \* useState(project.publishingPayload?.coverAssets || {})
  isProcessing,         \* useState(false)
  activeTab,            \* useState<'AI' | 'UPLOAD'>('AI')
  croppingImage,        \* useState<string | null>(null)
  inFlight,             \* handlers suspended at an await, each with its closure
  settled,              \* history: the results of the operations that completed
  \* ArtifactDownloader
  coverAssets,          \* prop: the asset types project.publishingPayload holds
  exportCallbacks,      \* props: which of onDownloadStart / onDownloadComplete
  isDownloading,        \* useState(false)
  downloadProgress,     \* useState(0)
  exportRun,            \* the export handler suspended at its await, if any
  exportLog,            \* history: the last export attempt and its callbacks
  \* dbService
  snapshotTimers,       \* dbService.snapshotTimers: its own [id, handle] entries
  windowIntervals,      \* the intervals registered with window.setInterval
  pendingSaves,         \* saveProject calls waiting for initDB, by project id
  \* Library
  projects,             \* prop: Project[]
  tempName,             \* useState('')
  editingProjectId,     \* useState<string | null>(null)
  activeMenuId,         \* useState<string | null>(null)
  updates,              \* history: onUpdateProjects calls made by the last action
  now                   \* Date.now()

vars == <<step, selectedTemplateId, targetPlatform, deliveryPhase,
          isISBNAssistantOpen, config, inputIsbn, project, hasOnUpdateProject,
          mounted, intervals, timeouts, sinceLast, visited, emitted, lateFire,
          attempt, channelRuleMemo, isbnStateMemo, closeCalls, call,
          selectedType, currentAssets, isProcessing, activeTab, croppingImage,
          inFlight, settled,
          coverAssets, exportCallbacks, isDownloading, downloadProgress,
          exportRun, exportLog,
          snapshotTimers, windowIntervals, pendingSaves,
          projects, tempName, editingProjectId, activeMenuId, updates, now>>

coverVars == <<selectedType, currentAssets, isProcessing, activeTab,
               croppingImage, inFlight, settled>>
exportVars == <<coverAssets, exportCallbacks, isDownloading, downloadProgress,
                exportRun, exportLog>>
dbVars == <<snapshotTimers, windowIntervals, pendingSaves>>
libraryVars == <<projects, tempName, editingProjectId, activeMenuId, updates,
                 now>>

-----------------------------------------------------------------------------
(* Bounds *)

\* Math.random() bodies drawn by the temporary-ISBN generator: 0..MaxMockBody
MaxMockBody == 1

\* chapters of the project handed to the spine generator: 0..MaxChapters
MaxChapters == 2

-----------------------------------------------------------------------------
(* Strings *)

Digits == {"0", "1", "2", "3", "4", "5", "6", "7", "8", "9"}

\* parseInt of a single decimal digit character
ParseDigit(c) ==
  CASE c = "0" -> 0 [] c = "1" -> 1 [] c = "2" -> 2 [] c = "3" -> 3
    [] c = "4" -> 4 [] c = "5" -> 5 [] c = "6" -> 6 [] c = "7" -> 7
    [] c = "8" -> 8 [] c = "9" -> 9

\* Number.prototype.toString of a digit 0..9
DigitChar(d) ==
  CASE d = 0 -> "0" [] d = 1 -> "1" [] d = 2 -> "2" [] d = 3 -> "3"
    [] d = 4 -> "4" [] d = 5 -> "5" [] d = 6 -> "6" [] d = 7 -> "7"
    [] d = 8 -> "8" [] d = 9 -> "9"

\* isbn.replace(/[- ]/g, "")
StripSeparators(s) == SelectSeq(s, LAMBDA c : c \notin {"-", " "})

\* Mutant: the pattern is not anchored at the end, /^\d{13}/
IsThirteenDigits_Unanchored(clean) ==
  /\ Len(clean) >= 13
  /\ \A i \in 1..13 : clean[i] \in Digits

\* /^\d{13}$/.test(clean)
IsThirteenDigits(clean) ==
  /\ Len(clean) = 13
  \* without the m flag, $ matches at the very end of the string only
  /\ \A i \in 1..Len(clean) : clean[i] \in Digits

\* Mutant: the weights start at 3
RECURSIVE WeightedSum_OddFirst(_, _, _)
WeightedSum_OddFirst(clean, i, sum) ==
  IF i < 12
    THEN WeightedSum_OddFirst(clean, i + 1,
                     sum + ParseDigit(clean[i + 1]) * (IF i % 2 = 0 THEN 3 ELSE 1))
    ELSE sum

\* Mutant: every weight is 1
RECURSIVE WeightedSumUnit(_, _, _)
WeightedSumUnit(clean, i, sum) ==
  IF i < 12
    THEN WeightedSumUnit(clean, i + 1, sum + ParseDigit(clean[i + 1]))
    ELSE sum

\* for (let i = 0; i < 12; i++) sum += parseInt(clean[i]) * (i % 2 === 0 ? 1 : 3)
RECURSIVE WeightedSum(_, _, _)
WeightedSum(clean, i, sum) ==
  IF i < 12
    THEN WeightedSum(clean, i + 1,
                     sum + ParseDigit(clean[i + 1]) * (IF i % 2 = 0 THEN 1 ELSE 3))
    ELSE sum

\* Mutant: the checksum is not compared
isValidISBN13_NoChecksum(isbn) ==
  IsThirteenDigits(StripSeparators(isbn))

\* ProfessionalPublicationCenter.isValidISBN13
isValidISBN13(isbn) ==
  LET clean == StripSeparators(isbn) IN
  IF ~IsThirteenDigits(clean) THEN FALSE
  ELSE LET sum == WeightedSum(clean, 0, 0)
           checkDigit == (10 - (sum % 10)) % 10
       IN  checkDigit = ParseDigit(clean[13])

\* Mutant: the modal's copy removes hyphens only
ModalIsValidISBN13_KeepsSpaces(isbn) ==
  LET clean == SelectSeq(isbn, LAMBDA c : c # "-") IN
  IF ~IsThirteenDigits(clean) THEN FALSE
  ELSE LET sum == WeightedSum(clean, 0, 0)
           checkDigit == (10 - (sum % 10)) % 10
       IN  checkDigit = ParseDigit(clean[13])

\* ISBNAssistanceModal.isValidISBN13 (a second copy of the same function)
ModalIsValidISBN13(isbn) ==
  LET clean == StripSeparators(isbn) IN
  IF ~IsThirteenDigits(clean) THEN FALSE
  ELSE LET sum == WeightedSum(clean, 0, 0)
           checkDigit == (10 - (sum % 10)) % 10
       IN  checkDigit = ParseDigit(clean[13])

-----------------------------------------------------------------------------
(* Input strings *)

EmptyStr == << >>
\* "9780306406157"
Isbn_Valid == <<"9","7","8","0","3","0","6","4","0","6","1","5","7">>
\* "978-0-306-40615-7"
Isbn_ValidHyphen ==
  <<"9","7","8","-","0","-","3","0","6","-","4","0","6","1","5","-","7">>
\* "9780306406158"
Isbn_BadCheck == <<"9","7","8","0","3","0","6","4","0","6","1","5","8">>
\* "978-0-306-4061"
Isbn_Short == <<"9","7","8","-","0","-","3","0","6","-","4","0","6","1">>
\* "abc1234567890"
Isbn_Letters == <<"a","b","c","1","2","3","4","5","6","7","8","9","0">>

\* what a user can type into an ISBN field
IsbnInputs ==
  {EmptyStr, Isbn_Valid, Isbn_ValidHyphen, Isbn_BadCheck, Isbn_Short}

\* the inputs known to be valid ISBN-13 numbers (EAN-13 test vectors)
KnownValidTyped == {Isbn_Valid, Isbn_ValidHyphen}

-----------------------------------------------------------------------------
(* Temporary-ISBN generator of the assistance modal *)

\* Number.prototype.toString() of a non-negative integer
RECURSIVE ToDecimal(_)
ToDecimal(n) ==
  IF n < 10 THEN <<DigitChar(n)>>
  ELSE ToDecimal(n \div 10) \o <<DigitChar(n % 10)>>

\* String.prototype.padStart(width, fill) for a one-character fill
RECURSIVE PadStart(_, _, _)
PadStart(s, width, fill) ==
  IF Len(s) >= width THEN s ELSE PadStart(<<fill>> \o s, width, fill)

\* Mutant: the check digit is the sum's last digit
GenerateMock_SumAsCheck(n) ==
  LET prefix == <<"9", "7", "8">>
      body == PadStart(ToDecimal(n), 9, "0")
      fullPrefix == prefix \o body
      sum == WeightedSum(fullPrefix, 0, 0)
      checkDigit == sum % 10
  IN  prefix \o <<"-">> \o body \o <<"-">> \o ToDecimal(checkDigit)

\* handleGenerateMock: the string put into the input for a drawn body n
GenerateMock(n) ==
  LET prefix == <<"9", "7", "8">>
      body == PadStart(ToDecimal(n), 9, "0")
      fullPrefix == prefix \o body
      sum == WeightedSum(fullPrefix, 0, 0)
      checkDigit == (10 - (sum % 10)) % 10
  IN  prefix \o <<"-">> \o body \o <<"-">> \o ToDecimal(checkDigit)

MockBodies == 0..MaxMockBody

\* every string the modal's input can hold
ModalInputs == IsbnInputs \cup {GenerateMock(n) : n \in MockBodies}

-----------------------------------------------------------------------------
(* Channel rule table *)

CHANNEL_RULES ==
  [ch \in {"Amazon KDP (Kindle)", "Google Books", "Apple Books", "Direct Publishing"}
      |-> [requiresISBN |-> FALSE, allowsPlatformISBN |-> FALSE]]
  @@ ("Amazon KDP (Paperback)" :> [requiresISBN |-> TRUE, allowsPlatformISBN |-> TRUE])
  @@ ("IngramSpark" :> [requiresISBN |-> TRUE, allowsPlatformISBN |-> FALSE])
  @@ ("Draft2Digital" :> [requiresISBN |-> FALSE, allowsPlatformISBN |-> FALSE,
                          exclusiveRisk |-> FALSE])
  @@ [ch \in {"Medium", "Substack", "Traditional submission", "Google Drive",
              "Apple iCloud", "Local Device"}
      |-> [requiresISBN |-> FALSE, allowsPlatformISBN |-> FALSE,
           isNonPublishing |-> TRUE]]

\* the fallback of the lookup
DefaultRule == [requiresISBN |-> FALSE, allowsPlatformISBN |-> FALSE]

\* members every object literal inherits from Object.prototype; a lookup of
\* such a name finds a truthy inherited member that has no rule fields
ObjectPrototypeKeys == {"constructor", "toString", "valueOf", "hasOwnProperty"}
InheritedMember == [inherited |-> TRUE]

\* CHANNEL_RULES[name] || { requiresISBN: false, allowsPlatformISBN: false }
ChannelLookup(name) ==
  IF name \in DOMAIN CHANNEL_RULES THEN CHANNEL_RULES[name]
  ELSE IF name \in ObjectPrototypeKeys THEN InheritedMember
  ELSE DefaultRule

\* rule.requiresISBN read as a condition (undefined is falsy)
RequiresISBN(rule) ==
  IF "requiresISBN" \in DOMAIN rule THEN rule.requiresISBN ELSE FALSE

\* Mutant: the flag that is read is allowsPlatformISBN
RequiresISBN_WrongFlag(rule) ==
  IF "allowsPlatformISBN" \in DOMAIN rule THEN rule.allowsPlatformISBN ELSE FALSE

\* useMemo(() => CHANNEL_RULES[targetPlatform] || {...}, [targetPlatform]):
\* the value the current render got from the memo
channelRule == channelRuleMemo

\* Mutant: the ISBN is looked at before the rule
IsbnStateFor_ValidityFirst(rule, isbn) ==
  IF isValidISBN13(isbn) THEN "PROVIDED"
  ELSE IF RequiresISBN(rule) THEN "REQUIRED_UNSET" ELSE "NOT_REQUIRED"

\* the body of the isbnState memo, for a rule and an ISBN field
IsbnStateFor(rule, isbn) ==
  IF ~RequiresISBN(rule) THEN "NOT_REQUIRED"
  ELSE IF isValidISBN13(isbn) THEN "PROVIDED" ELSE "REQUIRED_UNSET"

\* useMemo(..., [channelRule, config.isbn]): the value the current render got
\* from the memo
isbnState == isbnStateMemo

\* the channelRule memo recomputes when its dependency targetPlatform changed
ChannelRuleDepsChanged == targetPlatform' # targetPlatform

\* Mutant: config.isbn is missing from the dependency list
IsbnStateDepsChanged_ChannelOnly == ChannelRuleDepsChanged

\* the isbnState memo recomputes when channelRule (a new object whenever it
\* was recomputed) or config.isbn changed
IsbnStateDepsChanged == ChannelRuleDepsChanged \/ config'.isbn # config.isbn

\* the render that follows a handler: each memo keeps its cached value unless
\* one of its dependencies changed
Render ==
  /\ channelRuleMemo' = IF ChannelRuleDepsChanged
                          THEN ChannelLookup(targetPlatform') ELSE channelRuleMemo
  /\ isbnStateMemo' = IF IsbnStateDepsChanged
                        THEN IsbnStateFor(channelRuleMemo', config'.isbn)
                        ELSE isbnStateMemo

ISBNState == {"NOT_REQUIRED", "PROVIDED", "REQUIRED_UNSET"}

\* Mutant: a button names a channel the table does not list
FinalizationChannels_WithUnlisted ==
  (DOMAIN CHANNEL_RULES \ {"Traditional submission", "Google Books"})
    \cup {"Kobo"}

\* the channel buttons of DISTRIBUTION_GALLERY that lead to FINALIZATION
FinalizationChannels ==
  {"Direct Publishing", "Amazon KDP (Kindle)", "Amazon KDP (Paperback)",
   "IngramSpark", "Apple Books", "Medium", "Substack", "Draft2Digital",
   "Google Drive", "Apple iCloud", "Local Device"}

-----------------------------------------------------------------------------
(* Wizard steps and delivery phases *)

PubStep ==
  {"SPINE_OVERVIEW", "TEMPLATE_GALLERY", "CONFIG", "DISTRIBUTION_GALLERY",
   "TRADITIONAL_SUBMISSION_PREP", "FINALIZATION", "DELIVERY_SEQUENCE", "SUCCESS"}

TemplateIds == {"t1", "t2", "t3", "t4"}

\* deliverySteps.length
DeliveryStepsLength == 6
\* setInterval(..., 2500)
PhaseIntervalMs == 2500
\* setTimeout(() => setStep(PubStep.SUCCESS), 1500)
FinalDelayMs == 1500

-----------------------------------------------------------------------------
(* Project record and publishing spine *)

SpineNodeIds == {"WRITING", "ISBN_ASSIGNED"}

\* INITIAL_SPINE_NODES()
INITIAL_SPINE_NODES ==
  [id \in SpineNodeIds |->
     [id |-> id, isCompleted |-> FALSE, isPendingReview |-> FALSE,
      hasTimestamp |-> FALSE]]

NullProject == [isNull |-> TRUE]
UndefinedSpine == [defined |-> FALSE]

\* a project created without an ISBN; publishingSpine is not set yet
FreshProject ==
  [isNull |-> FALSE, isbn13 |-> EmptyStr, publishingSpine |-> UndefinedSpine]

\* a project persisted by an earlier session that supplied a valid ISBN
StoredProject ==
  [isNull |-> FALSE, isbn13 |-> Isbn_Valid,
   publishingSpine |->
     [defined |-> TRUE, currentNode |-> "WRITING",
      nodes |-> [INITIAL_SPINE_NODES EXCEPT
                   !["ISBN_ASSIGNED"] = [id |-> "ISBN_ASSIGNED",
                                         isCompleted |-> TRUE,
                                         isPendingReview |-> FALSE,
                                         hasTimestamp |-> TRUE]]]]

\* project.publishingSpine || { currentNode: WRITING, nodes: INITIAL_SPINE_NODES() }
CurrentSpine(p) ==
  IF p.publishingSpine.defined THEN p.publishingSpine
  ELSE [defined |-> TRUE, currentNode |-> "WRITING", nodes |-> INITIAL_SPINE_NODES]

\* Mutant: any non-empty ISBN completes the node
ProjectWithIsbn_CompletedWhenNonEmpty(p, value) ==
  LET isNowValid == value # EmptyStr
      currentSpine == CurrentSpine(p)
      old == currentSpine.nodes["ISBN_ASSIGNED"]
      updatedSpine ==
        [currentSpine EXCEPT !.nodes["ISBN_ASSIGNED"] =
           [id |-> "ISBN_ASSIGNED", isCompleted |-> isNowValid,
            isPendingReview |-> FALSE,
            hasTimestamp |-> IF isNowValid THEN TRUE ELSE old.hasTimestamp]]
  IN  [p EXCEPT !.isbn13 = StripSeparators(value), !.publishingSpine = updatedSpine]

\* Mutant: the ISBN is stored as typed
ProjectWithIsbn_RawIsbn(p, value) ==
  LET isNowValid == isValidISBN13(value)
      currentSpine == CurrentSpine(p)
      old == currentSpine.nodes["ISBN_ASSIGNED"]
      updatedSpine ==
        [currentSpine EXCEPT !.nodes["ISBN_ASSIGNED"] =
           [id |-> "ISBN_ASSIGNED", isCompleted |-> isNowValid,
            isPendingReview |-> FALSE,
            hasTimestamp |-> IF isNowValid THEN TRUE ELSE old.hasTimestamp]]
  IN  [p EXCEPT !.isbn13 = value, !.publishingSpine = updatedSpine]

\* the project handed to onUpdateProject by handleUpdateConfig('isbn', value)
ProjectWithIsbn(p, value) ==
  LET isNowValid == isValidISBN13(value)
      currentSpine == CurrentSpine(p)
      old == currentSpine.nodes["ISBN_ASSIGNED"]
      updatedSpine ==
        [currentSpine EXCEPT !.nodes["ISBN_ASSIGNED"] =
           [id |-> "ISBN_ASSIGNED", isCompleted |-> isNowValid,
            isPendingReview |-> FALSE,
            hasTimestamp |-> IF isNowValid THEN TRUE ELSE old.hasTimestamp]]
  IN  [p EXCEPT !.isbn13 = StripSeparators(value), !.publishingSpine = updatedSpine]

\* Mutant: the stored ISBN is dropped with the completion
ProjectMarkedSubmitted_ClearsIsbn(p) ==
  LET currentSpine == CurrentSpine(p)
      updatedSpine ==
        [currentSpine EXCEPT !.nodes["ISBN_ASSIGNED"] =
           [id |-> "ISBN_ASSIGNED", isCompleted |-> FALSE,
            isPendingReview |-> TRUE, hasTimestamp |-> TRUE]]
  IN  [p EXCEPT !.isbn13 = EmptyStr, !.publishingSpine = updatedSpine]

\* Mutant: the spine moves on to the ISBN node
ProjectMarkedSubmitted_MovesCurrentNode(p) ==
  LET currentSpine == CurrentSpine(p)
      updatedSpine ==
        [currentSpine EXCEPT !.currentNode = "ISBN_ASSIGNED",
                             !.nodes["ISBN_ASSIGNED"] =
           [id |-> "ISBN_ASSIGNED", isCompleted |-> FALSE,
            isPendingReview |-> TRUE, hasTimestamp |-> TRUE]]
  IN  [p EXCEPT !.publishingSpine = updatedSpine]

\* Mutant: the node keeps the isCompleted it had
ProjectMarkedSubmitted_KeepsCompleted(p) ==
  LET currentSpine == CurrentSpine(p)
      old == currentSpine.nodes["ISBN_ASSIGNED"]
      updatedSpine ==
        [currentSpine EXCEPT !.nodes["ISBN_ASSIGNED"] =
           [id |-> "ISBN_ASSIGNED", isCompleted |-> old.isCompleted,
            isPendingReview |-> TRUE, hasTimestamp |-> TRUE]]
  IN  [p EXCEPT !.publishingSpine = updatedSpine]

\* the project handed to onUpdateProject by handleMarkAsSubmitted
ProjectMarkedSubmitted(p) ==
  LET currentSpine == CurrentSpine(p)
      updatedSpine ==
        [currentSpine EXCEPT !.nodes["ISBN_ASSIGNED"] =
           [id |-> "ISBN_ASSIGNED", isCompleted |-> FALSE,
            isPendingReview |-> TRUE, hasTimestamp |-> TRUE]]
  IN  [p EXCEPT !.publishingSpine = updatedSpine]

-----------------------------------------------------------------------------
(* Initial state: the wizard as constructed by its host *)

LanguageCodes == {"zh-TW", "en"}
Descriptions == {"", "blurb"}

WizardInit ==
  /\ step = "SPINE_OVERVIEW"
  /\ selectedTemplateId = "t2"
  /\ targetPlatform = ""
  /\ deliveryPhase = 0
  /\ isISBNAssistantOpen = FALSE
  /\ project \in {NullProject, FreshProject, StoredProject}
  /\ hasOnUpdateProject \in BOOLEAN
  \* isbn: project?.publishingPayload?.isbn13 || ''
  /\ config = [isbn |-> IF project.isNull THEN EmptyStr ELSE project.isbn13,
               languageCode |-> "zh-TW",
               longDescription |-> ""]
  /\ inputIsbn = EmptyStr
  /\ mounted = TRUE
  /\ intervals = {}
  /\ timeouts = {}
  /\ sinceLast = 0
  /\ visited = << >>
  /\ emitted = 0
  /\ lateFire = FALSE
  /\ attempt = "none"
  \* the first render computes both memos
  /\ channelRuleMemo = ChannelLookup(targetPlatform)
  /\ isbnStateMemo = IsbnStateFor(channelRuleMemo, config.isbn)
  /\ closeCalls = 0

\* no function is applied on its own while the wizard runs
IdleCall == [fn |-> "none"]

\* no export was attempted yet
NoExport ==
  [kind |-> "none", outcome |-> "none", setDownloading |-> FALSE,
   starts |-> 0, completes |-> 0]

\* the components that are not rendered hold their construction state over
\* a project without cover assets, an empty library and a database service
\* on which nothing was saved
CoverUnused ==
  /\ selectedType = "EBOOK_DIGITAL"
  /\ currentAssets = {}
  /\ isProcessing = FALSE
  /\ activeTab = "AI"
  /\ croppingImage = "null"
  /\ inFlight = {}
  /\ settled = {}

ExportUnused ==
  /\ coverAssets = {}
  /\ exportCallbacks = {}
  /\ isDownloading = FALSE
  /\ downloadProgress = 0
  /\ exportRun = "none"
  /\ exportLog = NoExport

\* ids of the projects saved through dbService: `p-${Date.now()}`
ProjectIds == {"p-1", "p-2", "p-3"}

DbUnused ==
  /\ snapshotTimers = {}
  /\ windowIntervals = {}
  /\ pendingSaves = [id \in ProjectIds |-> 0]

LibraryUnused ==
  /\ projects = << >>
  /\ tempName = << >>
  /\ editingProjectId = "null"
  /\ activeMenuId = "null"
  /\ updates = << >>
  /\ now = 0

Init ==
  /\ WizardInit
  /\ call = IdleCall
  /\ CoverUnused /\ ExportUnused /\ DbUnused /\ LibraryUnused

\* what every wizard handler but the close buttons leaves alone
NoClose ==
  /\ closeCalls' = 0
  /\ UNCHANGED <<call, coverVars, exportVars, dbVars, libraryVars>>

-----------------------------------------------------------------------------
(* Helpers shared by the handlers *)

\* the assistance modal is rendered (and holds its input state)
ModalRendered(st, open) == st = "FINALIZATION" /\ open

\* the modal's input after a render: its state is created empty on mount and
\* lost on unmount
InputAfter(st, open, typed) == IF ModalRendered(st, open) THEN typed ELSE EmptyStr

\* Mutant: the interval of the effect is never started
EffectIntervals_NoStart(newStep) == intervals

\* Mutant: the interval already runs in FINALIZATION
EffectIntervals_StartsInFinalization(newStep) ==
  IF newStep = step THEN intervals
  ELSE IF newStep \in {"FINALIZATION", "DELIVERY_SEQUENCE"} THEN {PhaseIntervalMs}
  ELSE {}

\* Mutant: the effect body does not test the step
EffectIntervals_AnyStep(newStep) ==
  IF newStep = step THEN intervals ELSE {PhaseIntervalMs}

\* the [step] effect: its cleanup clears the interval of the step that is
\* left, its body starts one when DELIVERY_SEQUENCE is entered
EffectIntervals(newStep) ==
  IF newStep = step THEN intervals
  ELSE IF newStep = "DELIVERY_SEQUENCE" THEN {PhaseIntervalMs}
  ELSE {}

\* setStep(newStep) together with the render and the effect that follow it
SetStep(newStep) ==
  /\ step' = newStep
  /\ intervals' = EffectIntervals(newStep)
  /\ sinceLast' = IF newStep = "DELIVERY_SEQUENCE" /\ step # newStep THEN 0 ELSE sinceLast
  /\ visited' = IF newStep = "DELIVERY_SEQUENCE" /\ step # newStep
                  THEN <<deliveryPhase>> ELSE visited
  /\ inputIsbn' = InputAfter(newStep, isISBNAssistantOpen, inputIsbn)

\* Mutant: leaving a step forgets the chosen channel
Navigate_ForgetsChannel(from, to) ==
  /\ mounted
  /\ step = from
  /\ SetStep(to)
  /\ targetPlatform' = ""
  /\ emitted' = 0
  /\ attempt' = "none"
  /\ UNCHANGED <<selectedTemplateId, deliveryPhase, isISBNAssistantOpen,
                 config, project, hasOnUpdateProject, mounted, timeouts,
                 lateFire>>
  /\ Render
  /\ NoClose

\* a button that only changes the step
Navigate(from, to) ==
  /\ mounted
  /\ step = from
  /\ SetStep(to)
  /\ emitted' = 0
  /\ attempt' = "none"
  /\ UNCHANGED <<selectedTemplateId, targetPlatform, deliveryPhase,
                 isISBNAssistantOpen, config, project, hasOnUpdateProject,
                 mounted, timeouts, lateFire>>
  /\ Render
  /\ NoClose

\* Mutant: the project is sent to the host whatever the key
HandleUpdateConfig_AnyKeyEmits(key, value) ==
  /\ attempt' = "none"
  /\ config' = [config EXCEPT ![key] = value]
  /\ IF hasOnUpdateProject /\ ~project.isNull
       THEN /\ project' = ProjectWithIsbn(project, config'.isbn)
            /\ emitted' = 1
       ELSE /\ project' = project
            /\ emitted' = 0

\* handleUpdateConfig(key, value): the primed config, project and emitted
HandleUpdateConfig(key, value) ==
  /\ attempt' = "none"
  /\ config' = [config EXCEPT ![key] = value]
  /\ IF key = "isbn" /\ hasOnUpdateProject /\ ~project.isNull
       THEN /\ project' = ProjectWithIsbn(project, value)
            /\ emitted' = 1
       ELSE /\ project' = project
            /\ emitted' = 0

\* the values ExportConfig or a textarea can hand over for a key
ConfigValues(key) ==
  CASE key = "isbn" -> IsbnInputs
    [] key = "languageCode" -> LanguageCodes
    [] key = "longDescription" -> Descriptions

-----------------------------------------------------------------------------
(* User actions, one per button or input *)

\* SPINE_OVERVIEW footer button
EnterConfiguration == Navigate("SPINE_OVERVIEW", "TEMPLATE_GALLERY")

\* TEMPLATE_GALLERY back button
TemplateBack == Navigate("TEMPLATE_GALLERY", "SPINE_OVERVIEW")

\* TEMPLATE_GALLERY template card
SelectTemplate ==
  \E t \in TemplateIds :
    /\ mounted
    /\ step = "TEMPLATE_GALLERY"
    /\ selectedTemplateId' = t
    /\ SetStep("CONFIG")
    /\ emitted' = 0
    /\ attempt' = "none"
    /\ UNCHANGED <<targetPlatform, deliveryPhase, isISBNAssistantOpen, config,
                   project, hasOnUpdateProject, mounted, timeouts, lateFire>>
    /\ Render
    /\ NoClose

\* Mutant: the distribution gallery is skipped
ConfigNext_SkipsGallery == Navigate("CONFIG", "FINALIZATION")

\* ExportConfig onBack / onNext
ConfigBack == Navigate("CONFIG", "TEMPLATE_GALLERY")
ConfigNext == Navigate("CONFIG", "DISTRIBUTION_GALLERY")

\* ExportConfig onUpdate(key, val), 'language' mapped to 'languageCode'
ConfigUpdate ==
  \E key \in {"isbn", "language", "longDescription"} :
    \E value \in ConfigValues(IF key = "language" THEN "languageCode" ELSE key) :
      /\ mounted
      /\ step = "CONFIG"
      /\ HandleUpdateConfig(IF key = "language" THEN "languageCode" ELSE key, value)
      /\ UNCHANGED <<step, selectedTemplateId, targetPlatform, deliveryPhase,
                     isISBNAssistantOpen, inputIsbn, hasOnUpdateProject, mounted,
                     intervals, timeouts, sinceLast, visited, lateFire>>
      /\ Render
      /\ NoClose

\* DISTRIBUTION_GALLERY back button
DistributionBack == Navigate("DISTRIBUTION_GALLERY", "CONFIG")

\* DISTRIBUTION_GALLERY channel buttons: setTargetPlatform(ch); setStep(...)
SelectChannel ==
  \E ch \in FinalizationChannels \cup {"Traditional submission"} :
    /\ mounted
    /\ step = "DISTRIBUTION_GALLERY"
    /\ targetPlatform' = ch
    /\ SetStep(IF ch = "Traditional submission"
                 THEN "TRADITIONAL_SUBMISSION_PREP" ELSE "FINALIZATION")
    /\ emitted' = 0
    /\ attempt' = "none"
    /\ UNCHANGED <<selectedTemplateId, deliveryPhase, isISBNAssistantOpen, config,
                   project, hasOnUpdateProject, mounted, timeouts, lateFire>>
    /\ Render
    /\ NoClose

\* Mutant: the back button returns to the wrong step
TraditionalBack_ToConfig == Navigate("TRADITIONAL_SUBMISSION_PREP", "CONFIG")

\* TRADITIONAL_SUBMISSION_PREP back button
TraditionalBack == Navigate("TRADITIONAL_SUBMISSION_PREP", "DISTRIBUTION_GALLERY")

\* TRADITIONAL_SUBMISSION_PREP footer button: setStep(DELIVERY_SEQUENCE)
TraditionalDeliver == Navigate("TRADITIONAL_SUBMISSION_PREP", "DELIVERY_SEQUENCE")

\* the description textarea of TRADITIONAL_SUBMISSION_PREP and FINALIZATION
EditDescription ==
  \E value \in Descriptions :
    /\ mounted
    /\ step \in {"TRADITIONAL_SUBMISSION_PREP", "FINALIZATION"}
    /\ HandleUpdateConfig("longDescription", value)
    /\ UNCHANGED <<step, selectedTemplateId, targetPlatform, deliveryPhase,
                   isISBNAssistantOpen, inputIsbn, hasOnUpdateProject, mounted,
                   intervals, timeouts, sinceLast, visited, lateFire>>
    /\ Render
    /\ NoClose

\* FINALIZATION back button
FinalizationBack == Navigate("FINALIZATION", "DISTRIBUTION_GALLERY")

\* FINALIZATION ISBN card, rendered when channelRule.requiresISBN
OpenISBNAssistant ==
  /\ mounted
  /\ step = "FINALIZATION"
  /\ RequiresISBN(channelRule)
  /\ isISBNAssistantOpen' = TRUE
  /\ inputIsbn' = InputAfter(step, TRUE, inputIsbn)
  /\ emitted' = 0
  /\ attempt' = "none"
  /\ UNCHANGED <<step, selectedTemplateId, targetPlatform, deliveryPhase, config,
                 project, hasOnUpdateProject, mounted, intervals, timeouts,
                 sinceLast, visited, lateFire>>
  /\ Render
  /\ NoClose

\* Mutant: the gate is skipped
DeliveryBlocked_Never == FALSE

\* Mutant: the gate ignores that a valid ISBN was provided
DeliveryBlocked_IgnoresValidity == RequiresISBN(channelRule)

\* the condition of handleInitiateDelivery's early return
DeliveryBlocked == RequiresISBN(channelRule) /\ isbnState = "REQUIRED_UNSET"

\* FINALIZATION footer button: handleInitiateDelivery
InitiateDelivery ==
  /\ mounted
  /\ step = "FINALIZATION"
  /\ emitted' = 0
  /\ IF DeliveryBlocked
       THEN /\ isISBNAssistantOpen' = TRUE
            /\ inputIsbn' = InputAfter(step, TRUE, inputIsbn)
            /\ attempt' = "blocked"
            /\ UNCHANGED <<step, intervals, sinceLast, visited>>
       ELSE /\ SetStep("DELIVERY_SEQUENCE")
            /\ attempt' = "entered"
            /\ UNCHANGED isISBNAssistantOpen
  /\ UNCHANGED <<selectedTemplateId, targetPlatform, deliveryPhase, config,
                 project, hasOnUpdateProject, mounted, timeouts, lateFire>>
  /\ Render
  /\ NoClose

-----------------------------------------------------------------------------
(* ISBN-assistance modal, rendered by FINALIZATION while the flow is open *)

ModalFrame ==
  /\ UNCHANGED <<step, selectedTemplateId, targetPlatform, deliveryPhase,
                 hasOnUpdateProject, mounted, intervals, timeouts, sinceLast,
                 visited, lateFire>>
  /\ Render
  /\ NoClose

\* backdrop and close button: onClose = () => setIsISBNAssistantOpen(false)
ModalClose ==
  /\ mounted
  /\ ModalRendered(step, isISBNAssistantOpen)
  /\ isISBNAssistantOpen' = FALSE
  /\ inputIsbn' = EmptyStr
  /\ emitted' = 0
  /\ attempt' = "none"
  /\ UNCHANGED <<config, project>>
  /\ ModalFrame

\* the ISBN input: setInputIsbn(e.target.value)
ModalType ==
  \E value \in IsbnInputs :
    /\ mounted
    /\ ModalRendered(step, isISBNAssistantOpen)
    /\ inputIsbn' = value
    /\ emitted' = 0
    /\ attempt' = "none"
    /\ UNCHANGED <<isISBNAssistantOpen, config, project>>
    /\ ModalFrame

\* the temporary-ISBN button: handleGenerateMock
ModalGenerateMock ==
  \E n \in MockBodies :
    /\ mounted
    /\ ModalRendered(step, isISBNAssistantOpen)
    /\ inputIsbn' = GenerateMock(n)
    /\ emitted' = 0
    /\ attempt' = "none"
    /\ UNCHANGED <<isISBNAssistantOpen, config, project>>
    /\ ModalFrame

\* the submitted button: handleMarkAsSubmitted
ModalMarkAsSubmitted ==
  /\ mounted
  /\ ModalRendered(step, isISBNAssistantOpen)
  /\ attempt' = "none"
  /\ IF project.isNull \/ ~hasOnUpdateProject
       THEN /\ project' = project
            /\ emitted' = 0
       ELSE /\ project' = ProjectMarkedSubmitted(project)
            /\ emitted' = 1
  /\ UNCHANGED <<isISBNAssistantOpen, config, inputIsbn>>
  /\ ModalFrame

\* isCurrentValid = useMemo(() => isValidISBN13(inputIsbn), [inputIsbn])
isCurrentValid == ModalIsValidISBN13(inputIsbn)

\* the confirm button (disabled unless isCurrentValid):
\* onISBNValidated(inputIsbn.replace(/[- ]/g, "")), wired by the wizard to
\* handleUpdateConfig('isbn', isbn); setIsISBNAssistantOpen(false)
ModalConfirm ==
  /\ mounted
  /\ ModalRendered(step, isISBNAssistantOpen)
  /\ isCurrentValid
  /\ HandleUpdateConfig("isbn", StripSeparators(inputIsbn))
  /\ isISBNAssistantOpen' = FALSE
  /\ inputIsbn' = EmptyStr
  /\ ModalFrame

-----------------------------------------------------------------------------
(* Timers of the delivery simulation *)

AllTimers == intervals \cup timeouts
PendingTimers == Cardinality(intervals) + Cardinality(timeouts)

\* t is the timer that fires next
FiresNext(t) == \A u \in AllTimers : t <= u

\* the timers left after dt ms pass
Elapse(timers, dt) == {u - dt : u \in timers}

\* Mutant: the last tick does not clear the interval before arming the delay
IntervalsAfterLastTick_NotCleared(t) == Elapse(intervals \ {t}, t) \cup {PhaseIntervalMs}

\* clearInterval(interval) in the updater, at the last phase
IntervalsAfterLastTick(t) == Elapse(intervals \ {t}, t)

\* Mutant: the updater skips a phase
NextPhase_Skip(prev) == IF prev + 2 <= DeliveryStepsLength - 1 THEN prev + 2 ELSE DeliveryStepsLength - 1

\* prev + 1 of the updater
NextPhase(prev) == prev + 1

\* Mutant: the final delay is a second phase interval
FinalDelay_AsInterval == PhaseIntervalMs

\* the delay handed to setTimeout
FinalDelay == FinalDelayMs

\* the interval callback: setDeliveryPhase(prev => ...)
IntervalTick ==
  \E t \in intervals :
    /\ FiresNext(t)
    /\ emitted' = 0
    /\ attempt' = "none"
    /\ IF deliveryPhase < DeliveryStepsLength - 1
         THEN /\ deliveryPhase' = NextPhase(deliveryPhase)
              /\ intervals' = Elapse(intervals \ {t}, t) \cup {PhaseIntervalMs}
              /\ timeouts' = Elapse(timeouts, t)
              /\ sinceLast' = 0
              /\ visited' = Append(visited, deliveryPhase')
         ELSE /\ deliveryPhase' = deliveryPhase
              /\ intervals' = IntervalsAfterLastTick(t)
              /\ timeouts' = Elapse(timeouts, t) \cup {FinalDelay}
              /\ sinceLast' = sinceLast + t
              /\ visited' = visited
    /\ UNCHANGED <<step, selectedTemplateId, targetPlatform, isISBNAssistantOpen,
                   config, inputIsbn, project, hasOnUpdateProject, mounted,
                   lateFire>>
    /\ Render
    /\ NoClose

\* the timeout callback: setStep(PubStep.SUCCESS); on an unmounted component
\* the state update is dropped
FinalTimeout ==
  \E t \in timeouts :
    /\ FiresNext(t)
    /\ emitted' = 0
    /\ attempt' = "none"
    /\ timeouts' = Elapse(timeouts \ {t}, t)
    /\ IF mounted
         THEN /\ step' = "SUCCESS"
              /\ intervals' = Elapse(EffectIntervals("SUCCESS"), t)
              /\ sinceLast' = sinceLast + t
              /\ inputIsbn' = InputAfter("SUCCESS", isISBNAssistantOpen, inputIsbn)
              /\ lateFire' = lateFire
         ELSE /\ lateFire' = TRUE
              /\ UNCHANGED <<step, intervals, sinceLast, inputIsbn>>
    /\ UNCHANGED <<selectedTemplateId, targetPlatform, deliveryPhase,
                   isISBNAssistantOpen, config, project, hasOnUpdateProject,
                   mounted, visited>>
    /\ Render
    /\ NoClose

-----------------------------------------------------------------------------
(* Teardown *)

\* Mutant: the cleanup leaves the interval running
CleanupIntervals_Leak == intervals

\* the effect's cleanup on unmount: clearInterval(interval); the timeout
\* armed inside the updater has no handle and is not cleared
CleanupIntervals == {}

Unmount(closes) ==
  /\ mounted' = FALSE
  /\ closeCalls' = closes
  /\ UNCHANGED <<call, coverVars, exportVars, dbVars, libraryVars>>
  /\ intervals' = CleanupIntervals
  /\ emitted' = 0
  /\ attempt' = "none"
  \* the hook state is released with the component; step and deliveryPhase
  \* are kept as last rendered, being what a late callback's setter targets
  /\ selectedTemplateId' = "t2"
  /\ targetPlatform' = ""
  /\ isISBNAssistantOpen' = FALSE
  /\ config' = [isbn |-> EmptyStr, languageCode |-> "zh-TW", longDescription |-> ""]
  /\ inputIsbn' = EmptyStr
  /\ UNCHANGED <<step, deliveryPhase, project, hasOnUpdateProject, timeouts,
                 sinceLast, visited, lateFire>>
  /\ Render

\* the close buttons of SPINE_OVERVIEW and SUCCESS: onClose, on which the
\* host unmounts the wizard
OnClose ==
  /\ mounted
  /\ step \in {"SPINE_OVERVIEW", "SUCCESS"}
  /\ Unmount(1)

\* the host unmounts the wizard on its own (navigation, project closed)
Teardown ==
  /\ mounted
  /\ Unmount(0)

-----------------------------------------------------------------------------
(* Specifications *)

Next ==
  \/ EnterConfiguration
  \/ TemplateBack
  \/ SelectTemplate
  \/ ConfigBack
  \/ ConfigNext
  \/ ConfigUpdate
  \/ DistributionBack
  \/ SelectChannel
  \/ TraditionalBack
  \/ TraditionalDeliver
  \/ EditDescription
  \/ FinalizationBack
  \/ OpenISBNAssistant
  \/ InitiateDelivery
  \/ ModalClose
  \/ ModalType
  \/ ModalGenerateMock
  \/ ModalMarkAsSubmitted
  \/ ModalConfirm
  \/ IntervalTick
  \/ FinalTimeout
  \/ OnClose
  \/ Teardown

Spec == Init /\ [][Next]_vars

\* timers that are pending do fire
FairSpec == Spec /\ WF_vars(IntervalTick) /\ WF_vars(FinalTimeout)

TypeOK ==
  /\ step \in PubStep
  /\ selectedTemplateId \in TemplateIds
  /\ targetPlatform \in {""} \cup DOMAIN CHANNEL_RULES
  /\ deliveryPhase \in 0..(DeliveryStepsLength - 1)
  /\ isISBNAssistantOpen \in BOOLEAN
  /\ config.isbn \in IsbnInputs \cup {StripSeparators(s) : s \in ModalInputs}
  /\ inputIsbn \in ModalInputs
  /\ mounted \in BOOLEAN
  /\ intervals \subseteq 0..PhaseIntervalMs
  /\ timeouts \subseteq 0..FinalDelayMs
  /\ emitted \in {0, 1}
  /\ closeCalls \in {0, 1}
  /\ isbnStateMemo \in ISBNState

-----------------------------------------------------------------------------
(* Test vectors, independent of the validator *)

\* ISBN-13 numbers whose check digit was computed by hand: the typed ones and
\* the cleaned temporary ISBNs 978-00000000n-c for n = 0..3
KnownValidIsbns ==
  { Isbn_Valid, Isbn_ValidHyphen,
    <<"9","7","8","0","0","0","0","0","0","0","0","0","2">>,
    <<"9","7","8","0","0","0","0","0","0","0","0","1","9">>,
    <<"9","7","8","0","0","0","0","0","0","0","0","2","6">>,
    <<"9","7","8","0","0","0","0","0","0","0","0","3","3">> }

\* channel names that are not keys of the rule table
UnknownChannelNames == {"", "Kobo", "amazon kdp (paperback)", "constructor"}

\* the rule has its requiresISBN field set to true
RuleRequires(rule) == "requiresISBN" \in DOMAIN rule /\ rule.requiresISBN

\* <<0, 1, ..., n>>
UpTo(n) == [i \in 1..(n + 1) |-> i - 1]

-----------------------------------------------------------------------------
(* Claims *)

\* C1: a delivery attempt from FINALIZATION made while isbnState is
\* REQUIRED_UNSET leaves the step at FINALIZATION and opens the
\* ISBN-assistance flow; it never changes the step.
C1_BlockedAttemptOpensAssistant ==
  [][(InitiateDelivery /\ isbnState = "REQUIRED_UNSET")
       => (step = "FINALIZATION" /\ step' = "FINALIZATION" /\ isISBNAssistantOpen')]_vars

C1_Witness ==
  /\ mounted
  /\ attempt = "blocked"
  /\ step = "FINALIZATION"
  /\ isbnState = "REQUIRED_UNSET"
  /\ isISBNAssistantOpen

\* C2: in every state of a mounted wizard whose step is DELIVERY_SEQUENCE or
\* SUCCESS, isbnState is not REQUIRED_UNSET: if the target channel requires an
\* ISBN, the ISBN field holds a valid ISBN-13.
C2_DeliveryImpliesIsbnGatePassed ==
  (mounted /\ step \in {"DELIVERY_SEQUENCE", "SUCCESS"})
    => /\ isbnState # "REQUIRED_UNSET"
       /\ RuleRequires(channelRule) => config.isbn \in KnownValidIsbns

C2_Witness ==
  /\ mounted
  /\ step = "SUCCESS"
  /\ targetPlatform = "IngramSpark"
  /\ isbnState = "PROVIDED"

\* C3: during DELIVERY_SEQUENCE the phase index starts at 0 and the phases
\* shown are 0, 1, ..., deliveryPhase in this order, none skipped or repeated,
\* and the index never exceeds 5.
C3_PhasesVisitedInOrder ==
  (step \in {"DELIVERY_SEQUENCE", "SUCCESS"})
    => /\ deliveryPhase \in 0..(DeliveryStepsLength - 1)
       /\ visited = UpTo(deliveryPhase)
       /\ step = "SUCCESS" => deliveryPhase = DeliveryStepsLength - 1

C3_Witness ==
  /\ step = "DELIVERY_SEQUENCE"
  /\ deliveryPhase = DeliveryStepsLength - 1
  /\ visited = <<0, 1, 2, 3, 4, 5>>

C5_TimersCancelledOnTeardown ==
  (~mounted) => (PendingTimers = 0 /\ ~lateFire)

\* C6: in a wizard session at most one delivery timer is pending, and none is
\* pending while the step is not DELIVERY_SEQUENCE.
C6_AtMostOneTimer ==
  mounted => /\ PendingTimers <= 1
             /\ PendingTimers > 0 => step = "DELIVERY_SEQUENCE"

C6_Witness ==
  /\ mounted
  /\ step = "DELIVERY_SEQUENCE"
  /\ intervals = {}
  /\ timeouts = {FinalDelayMs}

\* C7: once the step is DELIVERY_SEQUENCE, the step eventually becomes
\* SUCCESS unless the wizard is torn down first (timers fire fairly).
C7_DeliveryReachesSuccess ==
  (mounted /\ step = "DELIVERY_SEQUENCE") ~> (step = "SUCCESS" \/ ~mounted)

C7_Witness ==
  /\ mounted
  /\ step = "SUCCESS"
  /\ visited = <<0, 1, 2, 3, 4, 5>>
  /\ PendingTimers = 0

\* C8: a delivery attempt from FINALIZATION made while isbnState is
\* NOT_REQUIRED or PROVIDED moves the step to DELIVERY_SEQUENCE and does not
\* open the assistance flow; a confirmation in the assistance flow for an
\* ISBN-requiring channel closes the flow and leaves isbnState PROVIDED, so
\* that the next attempt enters DELIVERY_SEQUENCE.
C8_PassingAttemptEntersDelivery ==
  [][/\ (InitiateDelivery /\ isbnState \in {"NOT_REQUIRED", "PROVIDED"})
          => (step' = "DELIVERY_SEQUENCE" /\ isISBNAssistantOpen' = isISBNAssistantOpen)
     /\ (ModalConfirm /\ RuleRequires(channelRule))
          => (~isISBNAssistantOpen' /\ step' = "FINALIZATION" /\ isbnState' = "PROVIDED")
    ]_vars

\* an ISBN that only the assistance flow produces was confirmed, and the
\* attempt that followed entered DELIVERY_SEQUENCE
C8_Witness ==
  /\ mounted
  /\ attempt = "entered"
  /\ step = "DELIVERY_SEQUENCE"
  /\ RuleRequires(channelRule)
  /\ config.isbn = <<"9","7","8","0","0","0","0","0","0","0","0","0","2">>
  /\ ~isISBNAssistantOpen

\* C9: for every channel whose rule does not require an ISBN, unknown
\* channels and the empty initial channel included, isbnState is NOT_REQUIRED
\* whatever the ISBN field holds.
C9_NotRequiredRegardlessOfIsbn ==
  /\ ~RuleRequires(channelRule) => isbnState = "NOT_REQUIRED"
  /\ \A name \in UnknownChannelNames :
       IsbnStateFor(ChannelLookup(name), config.isbn) = "NOT_REQUIRED"

C9_Witness ==
  /\ mounted
  /\ step = "FINALIZATION"
  /\ targetPlatform = "Medium"
  /\ config.isbn = Isbn_Valid
  /\ isbnState = "NOT_REQUIRED"

\* C10: for every channel whose rule requires an ISBN, isbnState is PROVIDED
\* exactly when the ISBN field is a valid ISBN-13 and REQUIRED_UNSET when it
\* is empty or invalid; no other value occurs.
C10_RequiredChannelIsbnState ==
  /\ RuleRequires(channelRule)
       => isbnState = IF config.isbn \in KnownValidIsbns
                        THEN "PROVIDED" ELSE "REQUIRED_UNSET"
  /\ isbnState \in ISBNState

C10_Witness ==
  /\ mounted
  /\ step = "FINALIZATION"
  /\ targetPlatform = "IngramSpark"
  /\ config.isbn = Isbn_BadCheck
  /\ isbnState = "REQUIRED_UNSET"

\* C11: in every reachable state the isbnState the render uses for gating and
\* display equals the value computed from the current target channel's rule
\* and the current ISBN field, so it is never a value left over from an
\* earlier channel or ISBN.
C11_IsbnStateNeverStale ==
  /\ channelRule = ChannelLookup(targetPlatform)
  /\ isbnState = IsbnStateFor(ChannelLookup(targetPlatform), config.isbn)

\* the ISBN field changed after the channel was chosen, and the memo followed
C11_Witness ==
  /\ mounted
  /\ step = "FINALIZATION"
  /\ targetPlatform = "IngramSpark"
  /\ config.isbn = StripSeparators(GenerateMock(0))
  /\ isbnState = "PROVIDED"

-----------------------------------------------------------------------------
(* The component's functions applied on their own to bounded inputs *)

\* every variable of the wizard; call is the only other one
wizardVars == <<step, selectedTemplateId, targetPlatform, deliveryPhase,
                isISBNAssistantOpen, config, inputIsbn, project,
                hasOnUpdateProject, mounted, intervals, timeouts, sinceLast,
                visited, emitted, lateFire, attempt, channelRuleMemo,
                isbnStateMemo, closeCalls>>

\* "97803064061570": a valid number with one digit too many
Isbn_TooLong == Isbn_Valid \o <<"0">>
\* "978030640615": one digit missing
Isbn_TwelveDigits == SubSeq(Isbn_Valid, 1, 12)
\* "978_0306406157": a character that is neither digit nor separator
Isbn_Underscore == <<"9","7","8","_">> \o SubSeq(Isbn_Valid, 4, 13)
\* "978030640615X"
Isbn_CheckX == SubSeq(Isbn_Valid, 1, 12) \o <<"X">>
\* "9780306406157\n": $ does not match before a final line break
Isbn_TrailingNewline == Isbn_Valid \o <<"\n">>
\* "978\t0306406157": a tab is not one of the removed separators
Isbn_Tab == <<"9","7","8","\t">> \o SubSeq(Isbn_Valid, 4, 13)
\* " - - ": separators only
Isbn_SeparatorsOnly == <<" ","-"," ","-"," ">>
\* " 978 0306406157 ": spaces around and inside a valid number
Isbn_ValidSpaces == <<" ","9","7","8"," ">> \o SubSeq(Isbn_Valid, 4, 13) \o <<" ">>

\* Isbn_Valid with one digit replaced, at every position by every digit
OneDigitReplaced ==
  {[Isbn_Valid EXCEPT ![p] = d] : p \in 1..Len(Isbn_Valid), d \in Digits}

\* the strings isValidISBN13 is applied to
ValidatorInputs ==
  IsbnInputs \cup OneDigitReplaced
    \cup {GenerateMock(n) : n \in MockBodies}
    \cup {StripSeparators(GenerateMock(n)) : n \in MockBodies}
    \cup {Isbn_Letters, Isbn_TooLong, Isbn_TwelveDigits, Isbn_Underscore,
          Isbn_CheckX, Isbn_TrailingNewline, Isbn_Tab, Isbn_SeparatorsOnly,
          Isbn_ValidSpaces}

\* the names the channel-rule lookup is applied to: every key of the table,
\* names that are no key, and names of members every object inherits
LookupNames ==
  DOMAIN CHANNEL_RULES \cup UnknownChannelNames \cup ObjectPrototypeKeys
    \cup {"Medium ", "ingramspark", "Wattpad"}

\* bodies Math.floor(Math.random() * 1000000000) can give: the ends of the
\* range, bodies that need padding and bodies that do not
GeneratorBodies ==
  MockBodies \cup {9, 10, 4096, 99999999, 100000000, 123456789, 306406157,
                   500000005, 999999998, 999999999}

-----------------------------------------------------------------------------
(* SpineGenerator.calculateSpineMetrics *)

\* const wordsPerPage = 250
WordsPerPage == 250
\* const paperThickness = 0.1 (mm per page), kept in tenths of a millimetre
PaperThicknessTenths == 1
\* const coverHeight = 2133
CoverHeightPx == 2133
\* const coverWidth = 1600
CoverWidthPx == 1600

\* a chapter whose wordCount is missing, and one that has it
NoWordCount == [defined |-> FALSE]
Counted(n) == [defined |-> TRUE, wordCount |-> n]

\* c.wordCount || 0
WordCountOrZero(c) ==
  IF c.defined /\ c.wordCount # 0 THEN c.wordCount ELSE 0

\* project.chapters.reduce((acc, c) => acc + (c.wordCount || 0), 0)
RECURSIVE ReduceWords(_, _)
ReduceWords(chapters, acc) ==
  IF chapters = << >> THEN acc
  ELSE ReduceWords(Tail(chapters), acc + WordCountOrZero(Head(chapters)))

\* Mutant: the quotient is rounded down
MathCeilOfQuotient_Floor(a, b) == a \div b

\* Math.ceil(a / b) for a >= 0, b > 0
MathCeilOfQuotient(a, b) ==
  IF a % b = 0 THEN a \div b ELSE (a \div b) + 1

\* the returned metrics; thickness is pageCount * paperThickness in tenths of
\* a millimetre (the code holds it in millimetres as a double)
calculateSpineMetrics(chapters) ==
  LET totalWords == ReduceWords(chapters, 0)
      pageCount == MathCeilOfQuotient(totalWords, WordsPerPage)
      spineThickness == pageCount * PaperThicknessTenths
  IN [pageCount |-> pageCount, thickness |-> spineThickness,
      coverHeight |-> CoverHeightPx, coverWidth |-> CoverWidthPx]

\* word counts around the page boundaries, and the missing count
ChapterValues ==
  {NoWordCount} \cup {Counted(n) : n \in {0, 1, 249, 250, 251, 500}}

RECURSIVE SeqsUpTo(_, _)
\* the sequences over S of length 0..n
SeqsUpTo(S, n) ==
  IF n = 0 THEN {<< >>}
  ELSE LET shorter == SeqsUpTo(S, n - 1)
       IN shorter \cup {Append(q, x) : q \in shorter, x \in S}

\* project.chapters of the projects the generator is shown for
ChapterLists == SeqsUpTo(ChapterValues, MaxChapters)

PendingCalls ==
  {[fn |-> "isValidISBN13", arg |-> s, done |-> FALSE] : s \in ValidatorInputs}
    \cup {[fn |-> "channelRule", arg |-> n, done |-> FALSE] : n \in LookupNames}
    \cup {[fn |-> "ModalIsValidISBN13", arg |-> s, done |-> FALSE] :
            s \in ValidatorInputs}
    \cup {[fn |-> "handleGenerateMock", arg |-> n, done |-> FALSE] :
            n \in GeneratorBodies}
    \cup {[fn |-> "calculateSpineMetrics", arg |-> c, done |-> FALSE] :
            c \in ChapterLists}

FunctionInit ==
  /\ WizardInit
  /\ project = NullProject
  /\ hasOnUpdateProject = FALSE
  /\ call \in PendingCalls
  /\ CoverUnused /\ ExportUnused /\ DbUnused /\ LibraryUnused

\* isValidISBN13(arg)
ApplyIsValidISBN13 ==
  /\ call.fn = "isValidISBN13"
  /\ ~call.done
  /\ call' = [fn |-> call.fn, arg |-> call.arg, done |-> TRUE,
              result |-> isValidISBN13(call.arg)]
  /\ UNCHANGED <<wizardVars, coverVars, exportVars, dbVars, libraryVars>>

\* CHANNEL_RULES[arg] || { requiresISBN: false, allowsPlatformISBN: false }
ApplyChannelLookup ==
  /\ call.fn = "channelRule"
  /\ ~call.done
  /\ call' = [fn |-> call.fn, arg |-> call.arg, done |-> TRUE,
              result |-> ChannelLookup(call.arg)]
  /\ UNCHANGED <<wizardVars, coverVars, exportVars, dbVars, libraryVars>>

\* ISBNAssistanceModal.isValidISBN13(arg)
ApplyModalIsValidISBN13 ==
  /\ call.fn = "ModalIsValidISBN13"
  /\ ~call.done
  /\ call' = [fn |-> call.fn, arg |-> call.arg, done |-> TRUE,
              result |-> ModalIsValidISBN13(call.arg)]
  /\ UNCHANGED <<wizardVars, coverVars, exportVars, dbVars, libraryVars>>

\* handleGenerateMock with Math.random() giving the body arg: the result is
\* the string handed to setInputIsbn
ApplyGenerateMock ==
  /\ call.fn = "handleGenerateMock"
  /\ ~call.done
  /\ call' = [fn |-> call.fn, arg |-> call.arg, done |-> TRUE,
              result |-> GenerateMock(call.arg)]
  /\ UNCHANGED <<wizardVars, coverVars, exportVars, dbVars, libraryVars>>

\* calculateSpineMetrics() of a SpineGenerator whose project.chapters is arg
ApplyCalculateSpineMetrics ==
  /\ call.fn = "calculateSpineMetrics"
  /\ ~call.done
  /\ call' = [fn |-> call.fn, arg |-> call.arg, done |-> TRUE,
              result |-> calculateSpineMetrics(call.arg)]
  /\ UNCHANGED <<wizardVars, coverVars, exportVars, dbVars, libraryVars>>

FunctionNext ==
  \/ ApplyIsValidISBN13
  \/ ApplyChannelLookup
  \/ ApplyModalIsValidISBN13
  \/ ApplyGenerateMock
  \/ ApplyCalculateSpineMetrics

FunctionSpec == FunctionInit /\ [][FunctionNext]_vars

\* the call has returned from fn
Returned(fn) == call.fn = fn /\ call.done

\* the decimal digit a character stands for
DigitValue(ch) == CHOOSE n \in 0..9 : DigitChar(n) = ch

\* s without its hyphens and spaces
WithoutHyphensAndSpaces(s) == SelectSeq(s, LAMBDA ch : ch # "-" /\ ch # " ")

\* s reduces to exactly 13 decimal digits
ReducesToThirteenDigits(s) ==
  LET c == WithoutHyphensAndSpaces(s) IN
  /\ Len(c) = 13
  /\ \A i \in 1..13 : \E n \in 0..9 : c[i] = DigitChar(n)

\* the EAN-13 rule on d0..d12, written out
Ean13(s) ==
  /\ ReducesToThirteenDigits(s)
  /\ LET c == WithoutHyphensAndSpaces(s)
         d == [i \in 0..12 |-> DigitValue(c[i + 1])]
     IN  d[12] = (10 - ((d[0] + 3 * d[1] + d[2] + 3 * d[3] + d[4] + 3 * d[5]
                          + d[6] + 3 * d[7] + d[8] + 3 * d[9] + d[10]
                          + 3 * d[11]) % 10)) % 10

\* C12: isValidISBN13 returns true exactly for the inputs that, without their
\* hyphens and spaces, are 13 decimal digits whose last digit is the EAN-13
\* check digit of the first twelve (weights 1, 3 alternating from d0): true
\* for 9780306406157, false for 9780306406158.
C12_ValidExactlyForEan13 ==
  Returned("isValidISBN13") =>
    /\ call.result = Ean13(call.arg)
    /\ call.arg = Isbn_Valid => call.result = TRUE
    /\ call.arg = Isbn_BadCheck => call.result = FALSE

C12_Witness ==
  /\ Returned("isValidISBN13")
  /\ call.arg = Isbn_ValidSpaces
  /\ call.result = TRUE

\* C13: for an input that does not reduce to exactly 13 decimal digits
\* (empty, too short, too long, letters, other characters) isValidISBN13
\* returns the value false.
C13_MalformedGivesFalse ==
  (Returned("isValidISBN13") /\ ~ReducesToThirteenDigits(call.arg))
    => call.result = FALSE

C13_Witness ==
  /\ Returned("isValidISBN13")
  /\ call.arg = Isbn_TooLong
  /\ call.result = FALSE

C15_NeverCompletedAndPending ==
  (~project.isNull /\ project.publishingSpine.defined) =>
    \A id \in DOMAIN project.publishingSpine.nodes :
      ~(project.publishingSpine.nodes[id].isCompleted
          /\ project.publishingSpine.nodes[id].isPendingReview)

\* a node completed by a valid ISBN was then marked as submitted
C15_Witness ==
  /\ ~project.isNull
  /\ project.isbn13 = Isbn_Valid
  /\ project.publishingSpine.defined
  /\ project.publishingSpine.nodes["ISBN_ASSIGNED"].isPendingReview
  /\ ~project.publishingSpine.nodes["ISBN_ASSIGNED"].isCompleted
  /\ emitted = 1

\* the edges between wizard steps
StepEdges ==
  {<<"SPINE_OVERVIEW", "TEMPLATE_GALLERY">>, <<"TEMPLATE_GALLERY", "SPINE_OVERVIEW">>,
   <<"TEMPLATE_GALLERY", "CONFIG">>, <<"CONFIG", "TEMPLATE_GALLERY">>,
   <<"CONFIG", "DISTRIBUTION_GALLERY">>, <<"DISTRIBUTION_GALLERY", "CONFIG">>,
   <<"DISTRIBUTION_GALLERY", "FINALIZATION">>, <<"FINALIZATION", "DISTRIBUTION_GALLERY">>,
   <<"DISTRIBUTION_GALLERY", "TRADITIONAL_SUBMISSION_PREP">>,
   <<"TRADITIONAL_SUBMISSION_PREP", "DISTRIBUTION_GALLERY">>,
   <<"FINALIZATION", "DELIVERY_SEQUENCE">>,
   <<"TRADITIONAL_SUBMISSION_PREP", "DELIVERY_SEQUENCE">>,
   <<"DELIVERY_SEQUENCE", "SUCCESS">>}

\* C16: the session starts in SPINE_OVERVIEW and every change of the wizard
\* step follows one of the edges of StepEdges, so no step is skipped.
C16_StepChangesFollowEdges ==
  /\ step = "SPINE_OVERVIEW"
  /\ [][step' # step => <<step, step'>> \in StepEdges]_vars

\* the whole path through the required-ISBN branch has been walked
C16_Witness ==
  /\ mounted
  /\ step = "SUCCESS"
  /\ targetPlatform = "Amazon KDP (Paperback)"
  /\ selectedTemplateId = "t4"

\* the edges that lead forward
ForwardEdges ==
  {<<"SPINE_OVERVIEW", "TEMPLATE_GALLERY">>, <<"TEMPLATE_GALLERY", "CONFIG">>,
   <<"CONFIG", "DISTRIBUTION_GALLERY">>,
   <<"DISTRIBUTION_GALLERY", "FINALIZATION">>,
   <<"DISTRIBUTION_GALLERY", "TRADITIONAL_SUBMISSION_PREP">>,
   <<"FINALIZATION", "DELIVERY_SEQUENCE">>,
   <<"TRADITIONAL_SUBMISSION_PREP", "DELIVERY_SEQUENCE">>,
   <<"DELIVERY_SEQUENCE", "SUCCESS">>}

\* the steps from which s is entered going forward
Preceding(s) == {p \in PubStep : <<p, s>> \in ForwardEdges}

\* everything a user can do in the wizard and its ISBN assistant
UserAction ==
  \/ EnterConfiguration \/ TemplateBack \/ SelectTemplate
  \/ ConfigBack \/ ConfigNext \/ ConfigUpdate
  \/ DistributionBack \/ SelectChannel
  \/ TraditionalBack \/ TraditionalDeliver \/ EditDescription
  \/ FinalizationBack \/ OpenISBNAssistant \/ InitiateDelivery
  \/ ModalClose \/ ModalType \/ ModalGenerateMock \/ ModalMarkAsSubmitted
  \/ ModalConfirm \/ OnClose

\* a user action that returns the wizard to a preceding step
BackNavigation == UserAction /\ mounted' /\ step' \in Preceding(step)

\* C17 as stated: in every step other than SPINE_OVERVIEW, DELIVERY_SEQUENCE
\* and SUCCESS included, a user action that returns to the preceding step is
\* enabled.
C17_BackEnabledInEveryStep ==
  (mounted /\ step # "SPINE_OVERVIEW") => ENABLED BackNavigation

\* the steps that render a back button
StepsWithBack ==
  {"TEMPLATE_GALLERY", "CONFIG", "DISTRIBUTION_GALLERY",
   "TRADITIONAL_SUBMISSION_PREP", "FINALIZATION"}

\* C17 amended: in TEMPLATE_GALLERY, CONFIG, DISTRIBUTION_GALLERY,
\* TRADITIONAL_SUBMISSION_PREP and FINALIZATION a user action that returns to
\* the preceding step is enabled; in DELIVERY_SEQUENCE and SUCCESS none is.
C17_BackEnabledBeforeDelivery ==
  /\ (mounted /\ step \in StepsWithBack) => ENABLED BackNavigation
  /\ (mounted /\ step \in {"DELIVERY_SEQUENCE", "SUCCESS"})
       => ~ENABLED BackNavigation

\* the gallery reached again from the traditional-submission step
C17_Witness ==
  /\ mounted
  /\ step = "DISTRIBUTION_GALLERY"
  /\ targetPlatform = "Traditional submission"
  /\ ENABLED BackNavigation

\* the edges a back button follows
BackEdges == {<<e[2], e[1]>> : e \in ForwardEdges}

\* C18: a back-navigation action changes only the step: the ISBN field and
\* the rest of the config, the selected template, the target channel, the
\* delivery phase index and the project (ISBN and spine nodes) are unchanged
\* and no project-updated event is emitted.
C18_BackChangesOnlyStep ==
  [][(mounted /\ mounted' /\ <<step, step'>> \in BackEdges)
       => /\ UNCHANGED <<config, selectedTemplateId, targetPlatform,
                         deliveryPhase, project>>
          /\ emitted' = 0
          /\ closeCalls' = 0]_vars

\* back in the gallery from FINALIZATION with template, channel and a typed
\* ISBN still in place
C18_Witness ==
  /\ mounted
  /\ step = "DISTRIBUTION_GALLERY"
  /\ targetPlatform = "IngramSpark"
  /\ selectedTemplateId = "t3"
  /\ config.isbn = Isbn_ValidHyphen
  /\ config.longDescription = "blurb"

\* a callback run by a timer
TimerAction == IntervalTick \/ FinalTimeout

\* C19: the only step change that happens without a user action is
\* DELIVERY_SEQUENCE -> SUCCESS, which the timeout makes; every other step
\* change is the effect of a user action; and a timer changes neither step
\* nor phase while the step is outside DELIVERY_SEQUENCE.
C19_OnlyDeliveryIsAutomatic ==
  [][/\ (step' # step /\ <<step, step'>> # <<"DELIVERY_SEQUENCE", "SUCCESS">>)
          => (UserAction /\ ~TimerAction)
     /\ (step = "DELIVERY_SEQUENCE" /\ step' = "SUCCESS")
          => (FinalTimeout /\ ~UserAction)
     /\ (TimerAction /\ (step' # step \/ deliveryPhase' # deliveryPhase))
          => step = "DELIVERY_SEQUENCE"]_vars

\* SUCCESS reached through the ungated traditional branch
C19_Witness ==
  /\ mounted
  /\ step = "SUCCESS"
  /\ targetPlatform = "Traditional submission"
  /\ deliveryPhase = DeliveryStepsLength - 1
  /\ timeouts = {}

\* the calls the last action made to the host: onUpdateProject and onClose
\* are the only callbacks among the props
HostCalls == emitted + closeCalls

\* C20: at the transition into SUCCESS the wizard signals the host exactly
\* once, without a further user action.
C20_SuccessSignalsHostOnce ==
  [][(step # "SUCCESS" /\ step' = "SUCCESS") => HostCalls' = 1]_vars

-----------------------------------------------------------------------------
(* Project updates *)

\* handleUpdateConfig(key, value) ran in this step; the value it was called
\* with is the one the new config holds under key
UpdateConfigCall(key, value) ==
  /\ mounted
  /\ HandleUpdateConfig(key, value)
  /\ ConfigUpdate \/ EditDescription \/ ModalConfirm

\* the ISBN_ASSIGNED node of a project, with the default spine for a project
\* that has none yet
IsbnNode(p) == CurrentSpine(p).nodes["ISBN_ASSIGNED"]

\* C21: when handleUpdateConfig runs with key 'isbn' while a project and an
\* onUpdateProject callback are present, exactly one project-updated event is
\* emitted; its isbn13 is the input without hyphens and spaces and its
\* ISBN_ASSIGNED node has isCompleted equal to the validity of the input and
\* isPendingReview false.
C21_IsbnUpdateEmitsProject ==
  [][(hasOnUpdateProject /\ ~project.isNull
        /\ UpdateConfigCall("isbn", config'.isbn))
       => /\ emitted' = 1
          /\ project'.isbn13 = WithoutHyphensAndSpaces(config'.isbn)
          /\ IsbnNode(project').isCompleted = Ean13(config'.isbn)
          /\ IsbnNode(project').isPendingReview = FALSE]_vars

\* a hyphenated valid ISBN typed in CONFIG reached the project without hyphens
C21_Witness ==
  /\ mounted
  /\ step = "CONFIG"
  /\ emitted = 1
  /\ config.isbn = Isbn_ValidHyphen
  /\ project.isbn13 = Isbn_Valid
  /\ IsbnNode(project).isCompleted

\* C22: a project update made by an ISBN update or by mark-as-submitted
\* changes only the ISBN_ASSIGNED node: every other node and the spine's
\* currentNode keep their values and no node leaves the collection.
C22_OnlyIsbnNodeChanges ==
  [][(emitted' = 1)
       => LET before == CurrentSpine(project)
              after == project'.publishingSpine
          IN  /\ after.defined
              /\ after.currentNode = before.currentNode
              /\ DOMAIN after.nodes = DOMAIN before.nodes
              /\ \A id \in DOMAIN before.nodes \ {"ISBN_ASSIGNED"} :
                   after.nodes[id] = before.nodes[id]]_vars

\* a project without a spine was marked as submitted: the spine it got holds
\* the untouched WRITING node
C22_Witness ==
  /\ emitted = 1
  /\ ~project.isNull
  /\ project.isbn13 = EmptyStr
  /\ project.publishingSpine.defined
  /\ project.publishingSpine.currentNode = "WRITING"
  /\ project.publishingSpine.nodes["WRITING"] = INITIAL_SPINE_NODES["WRITING"]
  /\ project.publishingSpine.nodes["ISBN_ASSIGNED"].isPendingReview

\* C23: whenever the step is not FINALIZATION the ISBN-assistance flow is
\* closed, and every entry into FINALIZATION starts with the flow closed.
C23_AssistantClosedOutsideFinalization ==
  /\ [](step # "FINALIZATION" => ~isISBNAssistantOpen)
  /\ [][(step # "FINALIZATION" /\ step' = "FINALIZATION")
          => ~isISBNAssistantOpen']_vars

\* C24: mark-as-submitted sets ISBN_ASSIGNED to pending review and not
\* completed, and leaves the wizard's ISBN field, the stored isbn13, the
\* step, the target channel and the open state of the assistance flow
\* unchanged, so isbnState and the outcome of a delivery attempt stay the
\* same; without a project or a callback it changes nothing.
C24_MarkAsSubmittedFrame ==
  [][ModalMarkAsSubmitted
       => /\ UNCHANGED <<config, step, targetPlatform, isISBNAssistantOpen,
                         inputIsbn, selectedTemplateId, deliveryPhase>>
          /\ isbnState' = isbnState
          /\ DeliveryBlocked' = DeliveryBlocked
          /\ IF project.isNull \/ ~hasOnUpdateProject
               THEN project' = project /\ emitted' = 0
               ELSE /\ emitted' = 1
                    /\ project'.isbn13 = project.isbn13
                    /\ IsbnNode(project').isPendingReview
                    /\ ~IsbnNode(project').isCompleted]_vars

\* submitted while a valid ISBN is in the field: the channel's gate is still
\* passed
C24_Witness ==
  /\ mounted
  /\ step = "FINALIZATION"
  /\ isISBNAssistantOpen
  /\ emitted = 1
  /\ IsbnNode(project).isPendingReview
  /\ project.isbn13 = Isbn_Valid
  /\ config.isbn = Isbn_Valid
  /\ isbnState = "PROVIDED"
  /\ ~DeliveryBlocked

\* a session whose project has no ISBN and no spine of its own yet
FreshInit == Init /\ project = FreshProject

FreshSpec == FreshInit /\ [][Next]_vars

\* C25 as stated: starting from a project with no ISBN and initial spine
\* nodes, ISBN_ASSIGNED.isCompleted is true exactly when the stored isbn13
\* is a valid ISBN-13.
C25_CompletedIffStoredIsbnValid ==
  IsbnNode(project).isCompleted <=> Ean13(project.isbn13)

\* C25 amended: starting from such a project, ISBN_ASSIGNED.isCompleted is
\* true exactly when the stored isbn13 is a valid ISBN-13 and the node is not
\* pending review; a completed node always has a valid stored isbn13.
C25_CompletedIffValidAndNotPending ==
  /\ IsbnNode(project).isCompleted
       <=> (Ean13(project.isbn13) /\ ~IsbnNode(project).isPendingReview)
  /\ IsbnNode(project).isCompleted => Ean13(project.isbn13)

\* a generated ISBN was confirmed and the application then marked as
\* submitted: the stored ISBN is valid, the node not completed
C25_Witness ==
  /\ project.isbn13 = StripSeparators(GenerateMock(1))
  /\ IsbnNode(project).isPendingReview
  /\ ~IsbnNode(project).isCompleted
  /\ config.isbn = project.isbn13

\* C26: step = SUCCESS implies the delivery phase index is the last one; the
\* index differs from 0 only in DELIVERY_SEQUENCE or SUCCESS; and
\* DELIVERY_SEQUENCE is entered at most once per session, always with index 0.
C26_PhaseIndexAndSingleDelivery ==
  /\ [](/\ step = "SUCCESS" => deliveryPhase = DeliveryStepsLength - 1
        /\ deliveryPhase # 0 => step \in {"DELIVERY_SEQUENCE", "SUCCESS"})
  /\ [][(step # "DELIVERY_SEQUENCE" /\ step' = "DELIVERY_SEQUENCE")
          => /\ deliveryPhase' = 0
             \* no phase was shown before: this is the first entry
             /\ visited = << >>]_vars

\* SUCCESS on a channel that needs no ISBN, all six phases shown once
C26_Witness ==
  /\ mounted
  /\ step = "SUCCESS"
  /\ targetPlatform = "Medium"
  /\ deliveryPhase = DeliveryStepsLength - 1
  /\ visited = UpTo(DeliveryStepsLength - 1)

\* handleUpdateConfig(key, value) ran in this step, called by a field of the
\* wizard itself (an ExportConfig field or a description textarea)
FieldUpdateCall(key, value) ==
  /\ mounted
  /\ HandleUpdateConfig(key, value)
  /\ ConfigUpdate \/ EditDescription

\* C27: an update of a config key other than 'isbn' changes only the local
\* config: no project-updated event is emitted and the project is unchanged;
\* an 'isbn' update without a project or without a callback changes only the
\* local ISBN field.
C27_OtherKeysStayLocal ==
  [][/\ \A key \in {"languageCode", "longDescription"} :
          FieldUpdateCall(key, config'[key])
            => /\ emitted' = 0
               /\ project' = project
               /\ config'.isbn = config.isbn
               /\ UNCHANGED <<step, targetPlatform, selectedTemplateId,
                              deliveryPhase, isISBNAssistantOpen>>
     /\ ((project.isNull \/ ~hasOnUpdateProject)
           /\ UpdateConfigCall("isbn", config'.isbn))
          => /\ emitted' = 0
             /\ project' = project
             /\ config'.languageCode = config.languageCode
             /\ config'.longDescription = config.longDescription
             /\ UNCHANGED <<step, targetPlatform, selectedTemplateId,
                            deliveryPhase>>]_vars

\* language and description were edited with a project and a callback
\* present: the project is still the one the session started with
C27_Witness ==
  /\ mounted
  /\ step = "FINALIZATION"
  /\ hasOnUpdateProject
  /\ project = FreshProject
  /\ config.languageCode = "en"
  /\ config.longDescription = "blurb"
  /\ emitted = 0

\* C28: the target channel is the empty initial value or a key of the rule
\* table; in FINALIZATION it is a key other than 'Traditional submission',
\* in TRADITIONAL_SUBMISSION_PREP it is 'Traditional submission'; so the
\* rule applied at a delivery attempt is the table's, never the default.
C28_TargetChannelIsTableKey ==
  mounted =>
    /\ targetPlatform \in DOMAIN CHANNEL_RULES \cup {""}
    /\ step = "FINALIZATION"
         => targetPlatform \in DOMAIN CHANNEL_RULES \ {"Traditional submission"}
    /\ step = "TRADITIONAL_SUBMISSION_PREP"
         => targetPlatform = "Traditional submission"
    /\ attempt # "none"
         => /\ targetPlatform \in DOMAIN CHANNEL_RULES
            /\ channelRule = CHANNEL_RULES[targetPlatform]

\* a delivery attempt decided by the table's rule for a required channel
C28_Witness ==
  /\ mounted
  /\ attempt = "blocked"
  /\ targetPlatform = "Amazon KDP (Paperback)"
  /\ channelRule = CHANNEL_RULES["Amazon KDP (Paperback)"]
  /\ config.isbn = Isbn_Short

\* C29: the modal's copy of isValidISBN13 returns what the wizard's copy
\* returns, for every input; so what the modal accepts and hands over (the
\* input without hyphens and spaces) is valid for the wizard's gate.
C29_ValidatorCopiesAgree ==
  Returned("ModalIsValidISBN13") =>
    /\ call.result = isValidISBN13(call.arg)
    /\ call.result => isValidISBN13(WithoutHyphensAndSpaces(call.arg))

\* the modal accepts a valid ISBN typed with hyphens
C29_Witness ==
  /\ Returned("ModalIsValidISBN13")
  /\ call.arg = Isbn_ValidHyphen
  /\ call.result = TRUE

\* C30: for every 9-digit body the generator can draw, the generated string
\* has the form 978-<body>-<check digit> and passes isValidISBN13.
C30_GeneratedIsbnIsValid ==
  Returned("handleGenerateMock") =>
    /\ Len(call.result) = 15
    /\ SubSeq(call.result, 1, 4) = <<"9", "7", "8", "-">>
    /\ call.result[14] = "-"
    /\ ModalIsValidISBN13(call.result)
    /\ Ean13(call.result)

\* the largest body Math.random() can give
C30_Witness ==
  /\ Returned("handleGenerateMock")
  /\ call.arg = 999999999
  /\ SubSeq(call.result, 5, 13) = <<"9", "9", "9", "9", "9", "9", "9", "9", "9">>
  /\ ModalIsValidISBN13(call.result)

-----------------------------------------------------------------------------
(* C31 *)

\* the words of a chapter list, summed by position with a missing count as 0
TotalWords(chapters) ==
  LET RECURSIVE Upto(_)
      Upto(i) ==
        IF i = 0 THEN 0
        ELSE Upto(i - 1)
               + (IF chapters[i].defined THEN chapters[i].wordCount ELSE 0)
  IN Upto(Len(chapters))

\* the least number of 250-word pages that hold t words
PagesFor(t) ==
  CHOOSE n \in 0..t : n * 250 >= t /\ \A m \in 0..(n - 1) : m * 250 < t

-----------------------------------------------------------------------------
(* The components below run on their own: the wizard is not rendered *)

WizardUnused ==
  /\ WizardInit
  /\ project = NullProject
  /\ hasOnUpdateProject = FALSE
  /\ call = IdleCall

-----------------------------------------------------------------------------
(* CoverManagementModal *)

\* AI generations and uploads started in one run of the modal: 0..MaxCoverOps
MaxCoverOps == 2

\* Object.keys(COVER_SPECS)
CoverAssetTypes == {"EBOOK_DIGITAL", "PRINT_PAPERBACK", "ISBN_BARCODE"}

\* project.publishingPayload?.coverAssets || {}: a project without covers and
\* one with a stored e-book cover
\* the map is kept as the set of its entries, one asset per type at most
StoredCover ==
  [type |-> "EBOOK_DIGITAL", url |-> <<"stored", 0>>, source |-> "AI",
   history |-> << >>]
NoCoverAssets == {}
StoredCoverAssets == {StoredCover}

CoverInit ==
  /\ WizardUnused /\ ExportUnused /\ DbUnused /\ LibraryUnused
  /\ selectedType = "EBOOK_DIGITAL"
  /\ currentAssets \in {NoCoverAssets, StoredCoverAssets}
  /\ isProcessing = FALSE
  /\ activeTab = "AI"
  /\ croppingImage = "null"
  /\ inFlight = {}
  /\ settled = {}

NotCover == UNCHANGED <<wizardVars, call, exportVars, dbVars, libraryVars>>

\* arr.slice(0, 5)
SliceFive(arr) == SubSeq(arr, 1, IF Len(arr) < 5 THEN Len(arr) ELSE 5)

\* [existing.url, ...(existing.history || [])].slice(0, 5) when the captured
\* map holds an asset of the type, [] (or no history at all) when not
HistoryFrom(assets, type) ==
  IF \E existing \in assets : existing.type = type
    THEN LET existing == CHOOSE a \in assets : a.type = type
         IN SliceFive(<<existing.url>> \o existing.history)
    ELSE << >>

\* { ...assets, [type]: asset }
WithAsset(assets, type, asset) ==
  {a \in assets : a.type # type} \cup {asset}

\* the operations started so far, and the url the next one produces
Started == Cardinality(inFlight) + Cardinality(settled)
NextOp == Started + 1
ResultUrl(op) == <<"result", op>>

\* a handler suspended at its await keeps the selectedType and currentAssets
\* of the render it was created in
Suspend(kind) ==
  [op |-> NextOp, kind |-> kind, selectedType |-> selectedType,
   currentAssets |-> currentAssets, overlapped |-> inFlight # {}]

\* the operations already waiting now overlap with the one that starts
Overlapping == {[o EXCEPT !.overlapped = TRUE] : o \in inFlight}

\* setSelectedType(type)
SelectType ==
  \E type \in CoverAssetTypes \ {selectedType} :
    /\ selectedType' = type
    /\ UNCHANGED <<currentAssets, isProcessing, activeTab, croppingImage,
                   inFlight, settled>>
    /\ NotCover

\* setActiveTab('AI' | 'UPLOAD')
SetActiveTab ==
  \E tab \in {"AI", "UPLOAD"} \ {activeTab} :
    /\ activeTab' = tab
    /\ UNCHANGED <<selectedType, currentAssets, isProcessing, croppingImage,
                   inFlight, settled>>
    /\ NotCover

\* handleAIInvoke up to its await; the button is rendered on the AI tab and
\* disabled while isProcessing
AIInvoke ==
  /\ activeTab = "AI"
  /\ ~isProcessing
  /\ Started < MaxCoverOps
  /\ isProcessing' = TRUE
  /\ inFlight' = Overlapping \cup {Suspend("AI")}
  /\ UNCHANGED <<selectedType, currentAssets, activeTab, croppingImage,
                 settled>>
  /\ NotCover

\* handleAIInvoke after generateImagenCover resolved
AIResolve ==
  \E o \in inFlight :
    /\ o.kind = "AI"
    /\ LET newAsset == [type |-> o.selectedType,
                        url |-> ResultUrl(o.op), source |-> "AI",
                        history |-> HistoryFrom(o.currentAssets,
                                                o.selectedType)]
       IN currentAssets' = WithAsset(o.currentAssets, o.selectedType, newAsset)
    /\ isProcessing' = FALSE
    /\ inFlight' = inFlight \ {o}
    /\ settled' = settled \cup
         {[op |-> o.op, kind |-> o.kind, type |-> o.selectedType,
           ok |-> TRUE, overlapped |-> o.overlapped]}
    /\ UNCHANGED <<selectedType, activeTab, croppingImage>>
    /\ NotCover

\* handleAIInvoke after generateImagenCover rejected: alert, finally
AIReject ==
  \E o \in inFlight :
    /\ o.kind = "AI"
    /\ isProcessing' = FALSE
    /\ inFlight' = inFlight \ {o}
    /\ settled' = settled \cup
         {[op |-> o.op, kind |-> o.kind, type |-> o.selectedType,
           ok |-> FALSE, overlapped |-> o.overlapped]}
    /\ UNCHANGED <<selectedType, currentAssets, activeTab, croppingImage>>
    /\ NotCover

\* handleFileUpload and the reader's onload: the drop zone and the file input
\* are rendered on the UPLOAD tab, whatever isProcessing is
FileChosen ==
  /\ activeTab = "UPLOAD"
  /\ croppingImage = "null"
  /\ croppingImage' = "image"
  /\ UNCHANGED <<selectedType, currentAssets, isProcessing, activeTab,
                 inFlight, settled>>
  /\ NotCover

\* the crop dialog's cancel button: setCroppingImage(null)
CancelCrop ==
  /\ croppingImage # "null"
  /\ croppingImage' = "null"
  /\ UNCHANGED <<selectedType, currentAssets, isProcessing, activeTab,
                 inFlight, settled>>
  /\ NotCover

\* handleConfirmCrop, and processUploadedImage up to its await
ConfirmCrop ==
  /\ croppingImage # "null"
  /\ Started < MaxCoverOps
  /\ croppingImage' = "null"
  /\ isProcessing' = TRUE
  /\ inFlight' = Overlapping \cup {Suspend("UPLOAD")}
  /\ UNCHANGED <<selectedType, currentAssets, activeTab, settled>>
  /\ NotCover

\* processUploadedImage after checkCoverCompliance resolved
UploadResolve ==
  \E o \in inFlight :
    /\ o.kind = "UPLOAD"
    /\ LET newAsset == [type |-> o.selectedType,
                        url |-> ResultUrl(o.op), source |-> "UPLOAD",
                        history |-> HistoryFrom(o.currentAssets,
                                                o.selectedType)]
       IN currentAssets' = WithAsset(o.currentAssets, o.selectedType, newAsset)
    /\ isProcessing' = FALSE
    /\ inFlight' = inFlight \ {o}
    /\ settled' = settled \cup
         {[op |-> o.op, kind |-> o.kind, type |-> o.selectedType,
           ok |-> TRUE, overlapped |-> o.overlapped]}
    /\ UNCHANGED <<selectedType, activeTab, croppingImage>>
    /\ NotCover

\* processUploadedImage after checkCoverCompliance rejected: alert, finally
UploadReject ==
  \E o \in inFlight :
    /\ o.kind = "UPLOAD"
    /\ isProcessing' = FALSE
    /\ inFlight' = inFlight \ {o}
    /\ settled' = settled \cup
         {[op |-> o.op, kind |-> o.kind, type |-> o.selectedType,
           ok |-> FALSE, overlapped |-> o.overlapped]}
    /\ UNCHANGED <<selectedType, currentAssets, activeTab, croppingImage>>
    /\ NotCover

CoverNext ==
  \/ SelectType
  \/ SetActiveTab
  \/ AIInvoke
  \/ AIResolve
  \/ AIReject
  \/ FileChosen
  \/ CancelCrop
  \/ ConfirmCrop
  \/ UploadResolve
  \/ UploadReject

CoverSpec == CoverInit /\ [][CoverNext]_vars

-----------------------------------------------------------------------------
(* C32 *)

\* the url is what the map shows for some type, or is kept in its history
InAssetMap(url) ==
  \E a \in currentAssets :
    \/ a.url = url
    \/ \E i \in DOMAIN a.history : a.history[i] = url

\* C32: when two asynchronous operations of the cover modal were in flight at
\* the same time, then after both completed the asset map contains the result
\* of each: no completed result is overwritten by the other operation writing
\* back its stale snapshot of the map.
C32_NoResultLost ==
  inFlight = {} =>
    \A o \in settled :
      (o.ok /\ o.overlapped) => InAssetMap(ResultUrl(o.op))

-----------------------------------------------------------------------------
(* ArtifactDownloader *)

\* the asset types the single-cover buttons are rendered for
DownloadTypes ==
  {"EBOOK_DIGITAL", "PRINT_PAPERBACK", "DOC_PREVIEW", "SQUARE_SOCIAL"}

ExportInit ==
  /\ WizardUnused /\ CoverUnused /\ DbUnused /\ LibraryUnused
  /\ coverAssets \in SUBSET DownloadTypes
  /\ exportCallbacks \in SUBSET {"onDownloadStart", "onDownloadComplete"}
  /\ isDownloading = FALSE
  /\ downloadProgress = 0
  /\ exportRun = "none"
  /\ exportLog = NoExport

NotExport == UNCHANGED <<wizardVars, call, coverVars, dbVars, libraryVars>>

\* the statements of a handler that write state or call the host, and the
\* stretches of work between them that can throw
SetIsDownloading(b) == [op |-> "setIsDownloading", flag |-> b, pct |-> 0]
SetDownloadProgress(p) ==
  [op |-> "setDownloadProgress", flag |-> FALSE, pct |-> p]
CallOnDownloadStart == [op |-> "onDownloadStart", flag |-> FALSE, pct |-> 0]
CallOnDownloadComplete ==
  [op |-> "onDownloadComplete", flag |-> FALSE, pct |-> 0]
Work == [op |-> "work", flag |-> FALSE, pct |-> 0]

\* the component's state and what the host saw, while a handler runs
Running(kind) ==
  [kind |-> kind, isDownloading |-> isDownloading,
   downloadProgress |-> downloadProgress, setDownloading |-> FALSE,
   starts |-> 0, completes |-> 0]

\* one statement; onDownloadStart?.() and onDownloadComplete?.() call the
\* host only when the prop was passed
Execute(r, stmt) ==
  CASE stmt.op = "setIsDownloading" ->
         [r EXCEPT !.isDownloading = stmt.flag,
                   !.setDownloading = r.setDownloading \/ stmt.flag]
    [] stmt.op = "setDownloadProgress" ->
         [r EXCEPT !.downloadProgress = stmt.pct]
    [] stmt.op = "onDownloadStart" ->
         IF "onDownloadStart" \in exportCallbacks
           THEN [r EXCEPT !.starts = r.starts + 1] ELSE r
    [] stmt.op = "onDownloadComplete" ->
         IF "onDownloadComplete" \in exportCallbacks
           THEN [r EXCEPT !.completes = r.completes + 1] ELSE r
    [] stmt.op = "work" -> r

RECURSIVE ExecuteAll(_, _)
ExecuteAll(r, stmts) ==
  IF stmts = << >> THEN r
  ELSE ExecuteAll(Execute(r, Head(stmts)), Tail(stmts))

\* where a try block can throw: in none of its statements (0), or in one of
\* its stretches of work
ThrowPoints(stmts) == {0} \cup {i \in DOMAIN stmts : stmts[i].op = "work"}

\* the statements of a try block that run when it throws at throwAt
Before(stmts, throwAt) ==
  IF throwAt = 0 THEN stmts ELSE SubSeq(stmts, 1, throwAt - 1)

\* Mutant: the progress is not reset
ExportFinally_KeepsProgress == <<SetIsDownloading(FALSE)>>

\* finally { setIsDownloading(false); setDownloadProgress(0); }
ExportFinally == <<SetIsDownloading(FALSE), SetDownloadProgress(0)>>

\* the try block of handleExportCover
ExportCoverTry ==
  <<SetIsDownloading(TRUE), CallOnDownloadStart, Work,
    SetDownloadProgress(100), CallOnDownloadComplete>>

\* 10 + (coverCount / Object.keys(coverAssets).length) * 40, shown rounded down
CoverProgress(coverCount, n) == 10 + ((coverCount * 40) \div n)

\* the try block of handleExportZipPackage up to await zip.generateAsync
ExportZipBeforeAwait ==
  LET n == Cardinality(coverAssets)
  IN <<SetIsDownloading(TRUE), CallOnDownloadStart, SetDownloadProgress(10),
       Work>>
       \o [i \in 1..n |-> SetDownloadProgress(CoverProgress(i, n))]
       \o <<SetDownloadProgress(60), Work, SetDownloadProgress(80), Work>>

\* the try block of handleExportZipPackage after the await
ExportZipAfterAwait ==
  <<Work, SetDownloadProgress(100), CallOnDownloadComplete>>

\* the try block of handleExportPDF
ExportPdfTry ==
  <<SetIsDownloading(TRUE), CallOnDownloadStart, SetDownloadProgress(20), Work>>
    \o (IF "EBOOK_DIGITAL" \in coverAssets
          THEN <<Work, SetDownloadProgress(40)>> ELSE << >>)
    \o <<Work, SetDownloadProgress(60)>>
    \o (IF "PRINT_PAPERBACK" \in coverAssets THEN <<Work>> ELSE << >>)
    \o <<SetDownloadProgress(80), Work, SetDownloadProgress(100),
         CallOnDownloadComplete>>

\* the state after a handler returned or suspended
Settle(r, outcome) ==
  /\ isDownloading' = r.isDownloading
  /\ downloadProgress' = r.downloadProgress
  /\ exportLog' = [kind |-> r.kind, outcome |-> outcome,
                   setDownloading |-> r.setDownloading,
                   starts |-> r.starts, completes |-> r.completes]

\* a try block run from r that throws at throwAt, then the finally block
TryFinally(r, stmts, throwAt) ==
  Settle(ExecuteAll(r, Before(stmts, throwAt) \o ExportFinally),
         IF throwAt = 0 THEN "success" ELSE "threw")

\* project.publishingPayload?.coverAssets && Object.keys(...).length > 0
hasCovers == coverAssets # {}

\* handleExportCover(assetType) for a type the project has no asset of: the
\* handler alerts and returns before its try block (the button that calls the
\* handler is disabled for such a type)
ExportCoverMissing ==
  \E assetType \in DownloadTypes \ coverAssets :
    /\ exportRun = "none"
    /\ Settle(Running("cover"), "missing")
    /\ UNCHANGED <<coverAssets, exportCallbacks, exportRun>>
    /\ NotExport

\* handleExportCover(assetType): no await, the handler runs to its end
ExportCover ==
  \E assetType \in coverAssets :
    /\ ~isDownloading
    /\ exportRun = "none"
    /\ \E throwAt \in ThrowPoints(ExportCoverTry) :
         TryFinally(Running("cover"), ExportCoverTry, throwAt)
    /\ UNCHANGED <<coverAssets, exportCallbacks, exportRun>>
    /\ NotExport

\* handleExportZipPackage up to its await, or to its end when it throws before
ExportZipStart ==
  /\ hasCovers
  /\ ~isDownloading
  /\ exportRun = "none"
  /\ \E throwAt \in ThrowPoints(ExportZipBeforeAwait) :
       IF throwAt = 0
         THEN /\ Settle(ExecuteAll(Running("zip"), ExportZipBeforeAwait),
                        "pending")
              /\ exportRun' = "zip"
         ELSE /\ TryFinally(Running("zip"), ExportZipBeforeAwait, throwAt)
              /\ exportRun' = "none"
  /\ UNCHANGED <<coverAssets, exportCallbacks>>
  /\ NotExport

\* the handler as it resumes: the state is read through the setters, the
\* host calls made so far are the logged ones
Resumed ==
  [kind |-> exportLog.kind, isDownloading |-> isDownloading,
   downloadProgress |-> downloadProgress,
   setDownloading |-> exportLog.setDownloading,
   starts |-> exportLog.starts, completes |-> exportLog.completes]

\* handleExportZipPackage after zip.generateAsync resolved
ExportZipResolve ==
  /\ exportRun = "zip"
  /\ \E throwAt \in ThrowPoints(ExportZipAfterAwait) :
       TryFinally(Resumed, ExportZipAfterAwait, throwAt)
  /\ exportRun' = "none"
  /\ UNCHANGED <<coverAssets, exportCallbacks>>
  /\ NotExport

\* handleExportZipPackage after zip.generateAsync rejected: catch, finally
ExportZipReject ==
  /\ exportRun = "zip"
  /\ Settle(ExecuteAll(Resumed, ExportFinally), "threw")
  /\ exportRun' = "none"
  /\ UNCHANGED <<coverAssets, exportCallbacks>>
  /\ NotExport

\* handleExportPDF: no await, the handler runs to its end
ExportPDF ==
  /\ hasCovers
  /\ ~isDownloading
  /\ exportRun = "none"
  /\ \E throwAt \in ThrowPoints(ExportPdfTry) :
       TryFinally(Running("pdf"), ExportPdfTry, throwAt)
  /\ UNCHANGED <<coverAssets, exportCallbacks, exportRun>>
  /\ NotExport

ExportNext ==
  \/ ExportCoverMissing
  \/ ExportCover
  \/ ExportZipStart
  \/ ExportZipResolve
  \/ ExportZipReject
  \/ ExportPDF

ExportSpec == ExportInit /\ [][ExportNext]_vars

-----------------------------------------------------------------------------
(* C33 *)

\* C33: every export attempt (single cover, ZIP, PDF) that started ends with
\* isDownloading false and progress 0, whether it succeeded or threw;
\* onDownloadComplete is called only on success; a single-cover export for a
\* missing asset returns without setting isDownloading and without calling
\* onDownloadStart or onDownloadComplete.
C33_ExportAttemptsEndClean ==
  /\ exportLog.outcome \in {"success", "threw"} =>
       isDownloading = FALSE /\ downloadProgress = 0
  /\ exportLog.completes > 0 => exportLog.outcome = "success"
  /\ exportLog.outcome = "missing" =>
       /\ ~exportLog.setDownloading
       /\ isDownloading = FALSE
       /\ exportLog.starts = 0
       /\ exportLog.completes = 0

\* a ZIP export that told the host it started, was suspended with the
\* progress shown, and then threw
C33_Witness ==
  /\ exportLog.kind = "zip"
  /\ exportLog.outcome = "threw"
  /\ exportLog.setDownloading
  /\ exportLog.starts = 1
  /\ exportLog.completes = 0
  /\ exportRun = "none"

-----------------------------------------------------------------------------
(* dbService: saveProject and the auto-snapshot timers *)

\* saveProject calls for one project waiting for initDB: 0..MaxPendingSaves
MaxPendingSaves == 2
\* runs of one interval's callback that are told apart: 0..MaxSnapshotRuns
MaxSnapshotRuns == 1

DbInit ==
  /\ WizardUnused /\ CoverUnused /\ ExportUnused /\ LibraryUnused
  /\ snapshotTimers = {}
  /\ windowIntervals = {}
  /\ pendingSaves = [id \in ProjectIds |-> 0]

NotDb == UNCHANGED <<wizardVars, call, coverVars, exportVars, libraryVars>>

\* Mutant: the timer table is never consulted
HasSnapshotTimer_Never(projectId) == FALSE

\* this.snapshotTimers[projectId] is truthy: an own entry holds a handle
\* (window.setInterval returns a positive number), and a name every object
\* inherits yields a function
HasSnapshotTimer(projectId) ==
  \/ \E t \in snapshotTimers : t.id = projectId
  \/ projectId \in ObjectPrototypeKeys

\* the handle window.setInterval returns next
NextHandle == Cardinality(windowIntervals) + 1

\* saveProject(project) up to await this.initDB()
SaveProject ==
  \E id \in ProjectIds :
    /\ pendingSaves[id] < MaxPendingSaves
    /\ pendingSaves' = [pendingSaves EXCEPT ![id] = @ + 1]
    /\ UNCHANGED <<snapshotTimers, windowIntervals>>
    /\ NotDb

\* saveProject after initDB resolved: put, then scheduleAutoSnapshot(id),
\* which runs without a break between its test and its assignment
SaveProjectResume ==
  \E id \in ProjectIds :
    /\ pendingSaves[id] > 0
    /\ pendingSaves' = [pendingSaves EXCEPT ![id] = @ - 1]
    /\ IF HasSnapshotTimer(id)
         THEN UNCHANGED <<snapshotTimers, windowIntervals>>
         ELSE /\ windowIntervals' = windowIntervals \cup
                   {[handle |-> NextHandle, projectId |-> id, runs |-> 0,
                     overlapped |-> pendingSaves[id] > 1]}
              /\ snapshotTimers' = {t \in snapshotTimers : t.id # id} \cup
                   {[id |-> id, handle |-> NextHandle]}
    /\ NotDb

\* saveProject when initDB rejects: the call ends in a rejected promise
SaveProjectFail ==
  \E id \in ProjectIds :
    /\ pendingSaves[id] > 0
    /\ pendingSaves' = [pendingSaves EXCEPT ![id] = @ - 1]
    /\ UNCHANGED <<snapshotTimers, windowIntervals>>
    /\ NotDb

\* the interval's callback, every 120000 ms: it logs and reads the project
SnapshotTick ==
  \E w \in windowIntervals :
    /\ w.runs < MaxSnapshotRuns
    /\ windowIntervals' =
         (windowIntervals \ {w}) \cup {[w EXCEPT !.runs = @ + 1]}
    /\ UNCHANGED <<snapshotTimers, pendingSaves>>
    /\ NotDb

DbNext ==
  \/ SaveProject
  \/ SaveProjectResume
  \/ SaveProjectFail
  \/ SnapshotTick

DbSpec == DbInit /\ [][DbNext]_vars

-----------------------------------------------------------------------------
(* C34 *)

\* the intervals registered with the window for a project
IntervalsOf(id) == {w \in windowIntervals : w.projectId = id}

\* C34: for every project id, after any number of saveProject calls for it,
\* overlapping ones included, at most one auto-snapshot interval is registered.
C34_AtMostOneSnapshotTimer ==
  \A id \in ProjectIds : Cardinality(IntervalsOf(id)) <= 1

\* two saves of one project waited for the database together, both went on to
\* scheduleAutoSnapshot, and the project has its one interval
C34_Witness ==
  \E id \in ProjectIds :
    /\ pendingSaves[id] = 0
    /\ \E w \in IntervalsOf(id) : w.overlapped
    /\ \E t \in snapshotTimers : t.id = id
    /\ Cardinality(IntervalsOf(id)) = 1

-----------------------------------------------------------------------------
(* Library: the project cards and their menu *)

\* projects the library is opened with: 0..MaxProjects
MaxProjects == 2
\* values of Date.now() told apart after the library was opened: 1..MaxClock
MaxClock == 2

\* the ids of the projects in the order the host holds them
IdAt == <<"p-1", "p-2", "p-3">>

\* a stored project: the fields the card handlers read or write
StoredProjectCard(i, pinned) ==
  [id |-> IdAt[i], name |-> <<"A">>, isPinned |-> pinned, updatedAt |-> 0]

\* the lists the host passes as the projects prop
InitialLibraries ==
  UNION {{[i \in 1..n |-> StoredProjectCard(i, pins[i])] :
            pins \in [1..n -> BOOLEAN]} : n \in 0..MaxProjects}

\* what the user types into the inline name field
TypedNames == {<< >>, <<" ", "\t">>, <<"B">>, <<" ", "B", " ">>}

LibraryInit ==
  /\ WizardUnused /\ CoverUnused /\ ExportUnused /\ DbUnused
  /\ projects \in InitialLibraries
  /\ tempName = << >>
  /\ editingProjectId = "null"
  /\ activeMenuId = "null"
  /\ updates = << >>
  /\ now = 0

NotLibrary == UNCHANGED <<wizardVars, call, coverVars, exportVars, dbVars>>

\* characters String.prototype.trim removes
WhiteSpace == {" ", "\t", "\n"}

RECURSIVE TrimStart(_)
TrimStart(s) ==
  IF s # << >> /\ Head(s) \in WhiteSpace THEN TrimStart(Tail(s)) ELSE s

RECURSIVE TrimEnd(_)
TrimEnd(s) ==
  IF s # << >> /\ s[Len(s)] \in WhiteSpace
    THEN TrimEnd(SubSeq(s, 1, Len(s) - 1)) ELSE s

\* s.trim()
Trim(s) == TrimEnd(TrimStart(s))

\* projects.map(p => p.id === id ? { ...p, isPinned: !p.isPinned } : p)
WithPinToggled(list, id) ==
  [i \in DOMAIN list |->
     IF list[i].id = id THEN [list[i] EXCEPT !.isPinned = ~@] ELSE list[i]]

\* Mutant: every project takes the new name
WithName_All(list, id, trimmed, at) ==
  [i \in DOMAIN list |->
     [list[i] EXCEPT !.name = trimmed, !.updatedAt = at]]

\* projects.map(p => p.id === projId
\*                     ? { ...p, name: trimmed, updatedAt: Date.now() } : p)
WithName(list, id, trimmed, at) ==
  [i \in DOMAIN list |->
     IF list[i].id = id
       THEN [list[i] EXCEPT !.name = trimmed, !.updatedAt = at]
       ELSE list[i]]

\* projects.filter(p => p.id !== id)
WithoutProject(list, id) == SelectSeq(list, LAMBDA p : p.id # id)

\* the ids of the cards rendered
CardIds == {projects[i].id : i \in DOMAIN projects}
CardOf(id) == projects[CHOOSE i \in DOMAIN projects : projects[i].id = id]

\* onUpdateProjects(updated): the host stores the list and passes it back
Emit(updated) ==
  /\ updates' = <<updated>>
  /\ projects' = updated

\* the handler returns without calling onUpdateProjects
NoEmit ==
  /\ updates' = << >>
  /\ UNCHANGED projects

\* the card's menu button: setActiveMenuId(activeMenuId === id ? null : id)
ToggleMenuOf(id) ==
  /\ id \in CardIds
  /\ activeMenuId' = IF activeMenuId = id THEN "null" ELSE id
  /\ NoEmit
  /\ UNCHANGED <<tempName, editingProjectId, now>>
  /\ NotLibrary

ToggleMenu == \E id \in ProjectIds : ToggleMenuOf(id)

\* handleGlobalClick: a click elsewhere in the window closes the menu
GlobalClick ==
  /\ activeMenuId # "null"
  /\ activeMenuId' = "null"
  /\ NoEmit
  /\ UNCHANGED <<tempName, editingProjectId, now>>
  /\ NotLibrary

\* handleTogglePin(e, project), from the open menu of the project
TogglePinOf(id) ==
  /\ id \in CardIds
  /\ activeMenuId = id
  /\ Emit(WithPinToggled(projects, id))
  /\ activeMenuId' = "null"
  /\ UNCHANGED <<tempName, editingProjectId, now>>
  /\ NotLibrary

TogglePin == \E id \in ProjectIds : TogglePinOf(id)

\* handleStartInlineEdit(e, project), from the title or from the open menu
StartInlineEditOf(id) ==
  /\ id \in CardIds
  /\ editingProjectId # id
  /\ editingProjectId' = id
  /\ tempName' = CardOf(id).name
  /\ activeMenuId' = "null"
  /\ NoEmit
  /\ UNCHANGED now
  /\ NotLibrary

StartInlineEdit == \E id \in ProjectIds : StartInlineEditOf(id)

\* onChange of the name field: setTempName(e.target.value)
TypeName ==
  \E value \in TypedNames :
    /\ editingProjectId \in CardIds
    /\ tempName # value
    /\ tempName' = value
    /\ NoEmit
    /\ UNCHANGED <<editingProjectId, activeMenuId, now>>
    /\ NotLibrary

\* handleSaveInlineEdit(projId), on Enter or blur of the name field
SaveInlineEditOf(projId) ==
  /\ projId \in CardIds
  /\ editingProjectId = projId
  /\ LET trimmed == Trim(tempName)
     IN IF trimmed # << >>
          THEN /\ now < MaxClock
               /\ now' = now + 1
               /\ Emit(WithName(projects, projId, trimmed, now'))
          ELSE /\ NoEmit
               /\ UNCHANGED now
  /\ editingProjectId' = "null"
  /\ UNCHANGED <<tempName, activeMenuId>>
  /\ NotLibrary

SaveInlineEdit == \E projId \in ProjectIds : SaveInlineEditOf(projId)

\* Escape in the name field: setEditingProjectId(null)
CancelInlineEdit ==
  /\ editingProjectId \in CardIds
  /\ editingProjectId' = "null"
  /\ NoEmit
  /\ UNCHANGED <<tempName, activeMenuId, now>>
  /\ NotLibrary

\* handleDelete(e, project), from the open menu; window.confirm answers
DeleteOf(id, confirmed) ==
  /\ id \in CardIds
  /\ activeMenuId = id
  /\ IF confirmed THEN Emit(WithoutProject(projects, id)) ELSE NoEmit
  /\ activeMenuId' = "null"
  /\ UNCHANGED <<tempName, editingProjectId, now>>
  /\ NotLibrary

Delete == \E id \in ProjectIds, confirmed \in BOOLEAN : DeleteOf(id, confirmed)

LibraryNext ==
  \/ ToggleMenu
  \/ GlobalClick
  \/ TogglePin
  \/ StartInlineEdit
  \/ TypeName
  \/ SaveInlineEdit
  \/ CancelInlineEdit
  \/ Delete

LibrarySpec == LibraryInit /\ [][LibraryNext]_vars

-----------------------------------------------------------------------------
(* C35 *)

\* the projects of a list other than the one with the id, in their order
OtherThan(list, id) == SelectSeq(list, LAMBDA p : p.id # id)

\* C35: toggling a pin, saving an inline rename and deleting change at most
\* the targeted project: every list passed to onUpdateProjects holds every
\* other project unchanged and in the same relative order; a rename to an
\* empty or whitespace-only name and a delete that is not confirmed emit no
\* update at all.
C35_OnlyTargetChanges ==
  [][\A id \in ProjectIds :
       /\ (TogglePinOf(id) \/ SaveInlineEditOf(id)
             \/ DeleteOf(id, TRUE) \/ DeleteOf(id, FALSE))
            => \A k \in DOMAIN updates' :
                 OtherThan(updates'[k], id) = OtherThan(projects, id)
       /\ (SaveInlineEditOf(id)
             /\ \A k \in DOMAIN tempName : tempName[k] \in {" ", "\t", "\n"})
            => updates' = << >>
       /\ DeleteOf(id, FALSE) => updates' = << >>]_vars

\* a rename was just emitted: the renamed project carries the trimmed name,
\* and another project, pinned and never renamed, is in the emitted list
C35_Witness ==
  /\ Len(updates) = 1
  /\ Len(projects) = 2
  /\ \E i, j \in DOMAIN projects :
       /\ i # j
       /\ projects[i].name = <<"B">>
       /\ projects[i].updatedAt = now
       /\ now > 0
       /\ projects[j].name = <<"A">>
       /\ projects[j].isPinned
       /\ projects[j].updatedAt = 0
  /\ editingProjectId = "null"
  /\ tempName = <<" ", "B", " ">>

====
